---------------------------- MODULE Spec2Model ----------------------------
(***************************************************************************)
(* A model of aicm's resolution and merge engine: preset resolution,       *)
(* MCP server merge and the .cursor/mcp.json file, rule install paths,     *)
(* command collision handling, hook merge / dedup / hooks.json, and the    *)
(* asset path rewriter.                                                    *)
(*                                                                         *)
(* Each part of the program has its own variables and its own              *)
(* specification (SpecPreset, SpecMcp, ...).  A specification keeps the    *)
(* variables of the other parts at their idle values.                      *)
(***************************************************************************)
EXTENDS Integers, Sequences, FiniteSets, TLC

VARIABLES
    \* ---- preset resolution ----
    pDecl,      \* preset config path -> the presets its config declares
    pRootList,  \* the presets the local config declares
    pStack,     \* the active resolution chain, one frame per open config
    pStatus,    \* "running" | "ok" | "circular"
    pLayers,    \* the preset layers resolved so far, innermost first
    \* ---- MCP servers ----
    mLocal,     \* the local config's mcpServers
    mPresets,   \* the mcpServers of each preset, in declaration order
    mMerged,    \* the mcpServers of the resolved config of the last install
    mcpFile,    \* .cursor/mcp.json
    mLast,      \* the last command run: "none" | "install" | "clean"
    \* ---- rules ----
    rLocal,     \* the names of the rules under the local rules/ directory
    rPresets,   \* the presets of the config: reference and rule names
    rRules,     \* the rules of the resolved config of the last install
    rFiles,     \* .cursor/rules/aicm: the files in it, path and content
    rLast,      \* the last command run: "none" | "install" | "clean"
    \* ---- commands and skills ----
    cPackages,  \* the packages of the workspace: local and preset entries
    cFiles,     \* per location, the files of .cursor/commands/aicm
    cSkills,    \* per location, the skills of .cursor/skills
    cWarnings,  \* the collision warnings of the last run
    cLast,      \* the last command run: "none" | "install" | "workspaces"
    \* ---- hooks ----
    hPackages,  \* the packages: local hooks.json and the presets' hooks.json
    hJson,      \* per location, .cursor/hooks.json
    hFiles,     \* per location, the files of .cursor/hooks/aicm
    hMerged,    \* per location, the merged hooks config of the last write
    hLoaded,    \* per location, the hook files handed to the last write
    hLast,      \* the last command run: "none" | "install" | "workspaces" | "clean"
    \* ---- path rewriter ----
    wContent,   \* the text of the artifact, as it is now
    wKind,      \* the target kind: "cursor" | "rulesFile"
    wPreset,    \* the preset reference of the artifact, or none
    wDepth,     \* the install depth of the artifact
    wApplied,   \* how often the rewriter has been applied to the text
    \* ---- asset references ----
    aArtifact,  \* the rule or command being installed: category, name, preset
    aAssets,    \* the names of the files under the source's assets/ directory
    aTokens,    \* the source text of the artifact, token by token
    aFile,      \* the installed file, path and content, or none
    aAssetFiles,\* the paths of the files of .cursor/assets/aicm
    aLast,      \* the last command run: "none" | "install"
    \* ---- overrides ----
    oConfig,    \* the config: local rules and commands, presets, overrides
    oDisk,      \* the override files that exist in the working directory
    oResolved,  \* the outcome of the last loadConfig, or none
    oFiles,     \* the files of .cursor/rules/aicm and .cursor/commands/aicm
    oLast,      \* the last command run: "none" | "install"
    \* ---- install, dry run and clean on the destination tree ----
    tPackages,  \* the packages: rules, presets (commands, hooks), mcpServers
    tInitial,   \* per location, the hand-authored files before the first run
    tTree,      \* per location, the files under .cursor as they are now
    tBefore,    \* per location, the files before the last command
    tLog,       \* the warnings of the last command, in the order emitted
    tHistory,   \* the commands run so far: "install" | "dry" | "clean"
    \* ---- workspace packages ----
    kPackages,  \* the discovered packages, sorted by relative path
    kInstalled, \* the relative paths of the packages the last run installed
    kResult,    \* the outcome of the last run: "none" | "ok" | "error"
    kLast,      \* the last command run: "none" | "workspaces"
    \* ---- workspace run ----
    gPackages,  \* the packages of the workspace, sorted by relative path
    gResults,   \* per package, the outcome of installPackage in the last run
    gCommands,  \* the merged commands of the last run
    gMcp,       \* the merged servers and the conflicts of the last run
    gRoot,      \* the files written under the root's .cursor by the last run
    gLast,      \* the last command run: "none" | "workspaces" | "dry"
    \* ---- hook command validation ----
    vSource,    \* the source: its hooks.json and whether it has a hooks/ directory
    vJson,      \* .cursor/hooks.json
    vWarnings,  \* the warnings of the last run, in the order emitted
    vResult,    \* the outcome of the last run: "none" | "ok" | "error"
    vLast,      \* the last command run: "none" | "install"
    \* ---- preset loading ----
    lPreset,    \* the preset: the entries of its root directory, its nested presets
    lResult,    \* the outcome of the last loadPreset: "none" | "ok" | "EmptyPreset"
    lLast,      \* the last step: "none" | "load"
    \* ---- install after install ----
    nConfigs,   \* the configuration of the package before and after it is edited
    nTree,      \* the files under the package's .cursor as they are now
    nHistory,   \* the configurations installed so far: "C1" | "C2", in order
    \* ---- preset namespaces ----
    ePreset,    \* the preset reference as the config spells it
    eWritten,   \* the namespace derived and the paths written by the last install
    eLast       \* the last command run: "none" | "install"

pVars == <<pDecl, pRootList, pStack, pStatus, pLayers>>
mVars == <<mLocal, mPresets, mMerged, mcpFile, mLast>>
rVars == <<rLocal, rPresets, rRules, rFiles, rLast>>
cVars == <<cPackages, cFiles, cSkills, cWarnings, cLast>>
hVars == <<hPackages, hJson, hFiles, hMerged, hLoaded, hLast>>
wVars == <<wContent, wKind, wPreset, wDepth, wApplied>>
aVars == <<aArtifact, aAssets, aTokens, aFile, aAssetFiles, aLast>>
oVars == <<oConfig, oDisk, oResolved, oFiles, oLast>>
tVars == <<tPackages, tInitial, tTree, tBefore, tLog, tHistory>>
kVars == <<kPackages, kInstalled, kResult, kLast>>
gVars == <<gPackages, gResults, gCommands, gMcp, gRoot, gLast>>
vVars == <<vSource, vJson, vWarnings, vResult, vLast>>
lVars == <<lPreset, lResult, lLast>>
nVars == <<nConfigs, nTree, nHistory>>
eVars == <<ePreset, eWritten, eLast>>

vars == <<pVars, mVars, rVars, cVars, hVars, wVars, aVars, oVars, tVars, kVars, gVars, vVars, lVars, nVars, eVars>>

\* What the actions of one part leave alone: the variables of the others.
pOthers == <<mVars, rVars, cVars, hVars, wVars, aVars, oVars, tVars, kVars, gVars, vVars, lVars, nVars, eVars>>
mOthers == <<pVars, rVars, cVars, hVars, wVars, aVars, oVars, tVars, kVars, gVars, vVars, lVars, nVars, eVars>>
rOthers == <<pVars, mVars, cVars, hVars, wVars, aVars, oVars, tVars, kVars, gVars, vVars, lVars, nVars, eVars>>
cOthers == <<pVars, mVars, rVars, hVars, wVars, aVars, oVars, tVars, kVars, gVars, vVars, lVars, nVars, eVars>>
hOthers == <<pVars, mVars, rVars, cVars, wVars, aVars, oVars, tVars, kVars, gVars, vVars, lVars, nVars, eVars>>
wOthers == <<pVars, mVars, rVars, cVars, hVars, aVars, oVars, tVars, kVars, gVars, vVars, lVars, nVars, eVars>>
aOthers == <<pVars, mVars, rVars, cVars, hVars, wVars, oVars, tVars, kVars, gVars, vVars, lVars, nVars, eVars>>
oOthers == <<pVars, mVars, rVars, cVars, hVars, wVars, aVars, tVars, kVars, gVars, vVars, lVars, nVars, eVars>>
tOthers == <<pVars, mVars, rVars, cVars, hVars, wVars, aVars, oVars, kVars, gVars, vVars, lVars, nVars, eVars>>
kOthers == <<pVars, mVars, rVars, cVars, hVars, wVars, aVars, oVars, tVars, gVars, vVars, lVars, nVars, eVars>>
gOthers == <<pVars, mVars, rVars, cVars, hVars, wVars, aVars, oVars, tVars, kVars, vVars, lVars, nVars, eVars>>
vOthers == <<pVars, mVars, rVars, cVars, hVars, wVars, aVars, oVars, tVars, kVars, gVars, lVars, nVars, eVars>>
lOthers == <<pVars, mVars, rVars, cVars, hVars, wVars, aVars, oVars, tVars, kVars, gVars, vVars, nVars, eVars>>
nOthers == <<pVars, mVars, rVars, cVars, hVars, wVars, aVars, oVars, tVars, kVars, gVars, vVars, lVars, eVars>>
eOthers == <<pVars, mVars, rVars, cVars, hVars, wVars, aVars, oVars, tVars, kVars, gVars, vVars, lVars, nVars>>

(***************************************************************************)
(* General helpers                                                         *)
(***************************************************************************)

\* The elements of a sequence.
Range(s) == {s[i] : i \in 1..Len(s)}

\* All sequences over S of length at most n.
SeqsUpTo(S, n) == UNION {[1..k -> S] : k \in 0..n}

\* A set as a sequence, in some fixed order.
RECURSIVE SetToSeq(_)
SetToSeq(S) ==
    IF S = {} THEN <<>>
    ELSE LET x == CHOOSE x \in S : TRUE IN <<x>> \o SetToSeq(S \ {x})

\* The concatenation of a sequence of sequences.
RECURSIVE Flatten(_)
Flatten(ss) == IF ss = <<>> THEN <<>> ELSE Head(ss) \o Flatten(Tail(ss))

\* All sequences over S of length at most n without a repeated element.
DistinctSeqsUpTo(S, n) ==
    {s \in SeqsUpTo(S, n) : \A i, j \in 1..Len(s) : i # j => s[i] # s[j]}

(***************************************************************************)
(* Idle values: what a part's variables hold in the specifications of the  *)
(* other parts.                                                            *)
(***************************************************************************)

PresetIdle ==
    /\ pDecl = <<>>
    /\ pRootList = <<>>
    /\ pStack = <<>>
    /\ pStatus = "idle"
    /\ pLayers = <<>>

McpIdle ==
    /\ mLocal = <<>>
    /\ mPresets = <<>>
    /\ mMerged = <<>>
    /\ mcpFile = <<>>
    /\ mLast = "idle"

RulesIdle ==
    /\ rLocal = {}
    /\ rPresets = <<>>
    /\ rRules = <<>>
    /\ rFiles = {}
    /\ rLast = "idle"

CommandsIdle ==
    /\ cPackages = <<>>
    /\ cFiles = <<>>
    /\ cSkills = <<>>
    /\ cWarnings = {}
    /\ cLast = "idle"

HooksIdle ==
    /\ hPackages = <<>>
    /\ hJson = <<>>
    /\ hFiles = <<>>
    /\ hMerged = <<>>
    /\ hLoaded = <<>>
    /\ hLast = "idle"

RewriteIdle ==
    /\ wContent = <<>>
    /\ wKind = "idle"
    /\ wPreset = <<>>
    /\ wDepth = 0
    /\ wApplied = 0

AssetsIdle ==
    /\ aArtifact = <<>>
    /\ aAssets = {}
    /\ aTokens = <<>>
    /\ aFile = <<>>
    /\ aAssetFiles = {}
    /\ aLast = "idle"

OverridesIdle ==
    /\ oConfig = <<>>
    /\ oDisk = {}
    /\ oResolved = <<>>
    /\ oFiles = <<>>
    /\ oLast = "idle"

TreeIdle ==
    /\ tPackages = <<>>
    /\ tInitial = <<>>
    /\ tTree = <<>>
    /\ tBefore = <<>>
    /\ tLog = <<>>
    /\ tHistory = <<"idle">>

FilterIdle ==
    /\ kPackages = <<>>
    /\ kInstalled = {}
    /\ kResult = "none"
    /\ kLast = "idle"

WorkspaceIdle ==
    /\ gPackages = <<>>
    /\ gResults = <<>>
    /\ gCommands = <<>>
    /\ gMcp = <<>>
    /\ gRoot = {}
    /\ gLast = "idle"

ValidationIdle ==
    /\ vSource = <<>>
    /\ vJson = <<>>
    /\ vWarnings = <<>>
    /\ vResult = "idle"
    /\ vLast = "idle"

LoadIdle ==
    /\ lPreset = <<>>
    /\ lResult = "idle"
    /\ lLast = "idle"

ReinstallIdle ==
    /\ nConfigs = <<>>
    /\ nTree = <<>>
    /\ nHistory = <<"idle">>

NamespaceIdle ==
    /\ ePreset = <<>>
    /\ eWritten = <<>>
    /\ eLast = "idle"

(***************************************************************************)
(* Preset Resolver (spec.md 4.1).  The recursive resolver with its cycle   *)
(* detection is not part of src/ (config.ts's loadPreset loads one preset  *)
(* and does not descend); it is modelled from spec.md 4.1 as a depth-first *)
(* walk with an explicit stack.  Each frame carries the visited-set of     *)
(* absolute config paths of the chain that led to it.                      *)
(***************************************************************************)

\* The preset configs on disk, by absolute config path.
Presets == {"A", "B", "C"}

\* The most presets one config declares.
MaxNested == 2

\* A stack deeper than any repetition-free chain; the guard of PresetDescend
\* stops there.
MaxDepth == Cardinality(Presets) + 2

PresetLists == DistinctSeqsUpTo(Presets, MaxNested)

\* The local config is the bottom frame; it is not itself a preset.
RootPath == "root"

\* The presets declared by the config at `path`.
DeclaredPresets(path) == IF path = RootPath THEN pRootList ELSE pDecl[path]

\* spec.md 4.1: "adding this config's absolute path to the visited-set before
\* descending".
PresetVisitedNoAdd(visited, path) == visited

PresetVisitedAdd(visited, path) == visited \cup {path}

\* spec.md 4.1: "fails CircularPresetDependency if a path reappears in the
\* active chain".
PresetIsCircular(visited, path) == path \in visited

PresetTop == pStack[Len(pStack)]

PresetStart ==
    /\ pDecl \in [Presets -> PresetLists]
    /\ pRootList \in PresetLists
    /\ pStack = <<[path |-> RootPath, next |-> 1, visited |-> {}]>>
    /\ pStatus = "running"
    /\ pLayers = <<>>

\* Resolve the next preset the config on top of the stack declares.
PresetDescend ==
    /\ pStatus = "running"
    /\ Len(pStack) < MaxDepth
    /\ PresetTop.next <= Len(DeclaredPresets(PresetTop.path))
    /\ LET top == PresetTop
           q == DeclaredPresets(top.path)[top.next]
           childVisited ==
               IF top.path = RootPath THEN top.visited
               ELSE PresetVisitedAdd(top.visited, top.path)
       IN  IF PresetIsCircular(childVisited, q)
           THEN /\ pStatus' = "circular"
                /\ UNCHANGED <<pStack, pLayers>>
           ELSE /\ pStack' =
                      Append([pStack EXCEPT ![Len(pStack)].next = top.next + 1],
                             [path |-> q, next |-> 1, visited |-> childVisited])
                /\ UNCHANGED <<pStatus, pLayers>>
    /\ UNCHANGED <<pDecl, pRootList>>
    /\ UNCHANGED pOthers

\* Every nested preset of the top config is resolved: the config itself
\* becomes a layer (after its nested presets: innermost first).
PresetReturn ==
    /\ pStatus = "running"
    /\ Len(pStack) > 1
    /\ PresetTop.next > Len(DeclaredPresets(PresetTop.path))
    /\ pLayers' = Append(pLayers, PresetTop.path)
    /\ pStack' = SubSeq(pStack, 1, Len(pStack) - 1)
    /\ UNCHANGED <<pDecl, pRootList, pStatus>>
    /\ UNCHANGED pOthers

\* Every preset of the local config is resolved.
PresetFinish ==
    /\ pStatus = "running"
    /\ Len(pStack) = 1
    /\ PresetTop.next > Len(pRootList)
    /\ pStatus' = "ok"
    /\ UNCHANGED <<pDecl, pRootList, pStack, pLayers>>
    /\ UNCHANGED pOthers

PresetInit ==
    /\ PresetStart /\ McpIdle /\ RulesIdle /\ CommandsIdle /\ HooksIdle /\ RewriteIdle
    /\ AssetsIdle
    /\ OverridesIdle
    /\ TreeIdle
    /\ FilterIdle
    /\ WorkspaceIdle
    /\ ValidationIdle
    /\ LoadIdle
    /\ ReinstallIdle
    /\ NamespaceIdle

PresetNext == PresetDescend \/ PresetReturn \/ PresetFinish

SpecPreset == PresetInit /\ [][PresetNext]_vars

\* The resolver is a sequential run: it keeps taking steps until it ends.
SpecPresetFair == PresetInit /\ [][PresetNext]_vars /\ WF_vars(PresetNext)

\* The config paths of the active chain, read off the stack.
PresetChain == {pStack[i].path : i \in 1..Len(pStack)}

\* The presets reachable from the local config through declarations.
RECURSIVE PresetReach(_, _)
PresetReach(seen, n) ==
    IF n = 0 THEN seen
    ELSE PresetReach(seen \cup UNION {Range(pDecl[p]) : p \in seen}, n - 1)

PresetReachable == PresetReach(Range(pRootList), Cardinality(Presets))

\* The presets reachable from p in one step or more.
RECURSIVE PresetReachFrom(_, _)
PresetReachFrom(seen, n) ==
    IF n = 0 THEN seen
    ELSE PresetReachFrom(seen \cup UNION {Range(pDecl[p]) : p \in seen}, n - 1)

PresetOnCycle(p) == p \in PresetReachFrom(Range(pDecl[p]), Cardinality(Presets))

\* Some preset reachable from the local config lies on a declaration cycle.
PresetCycleReachable == \E p \in PresetReachable : PresetOnCycle(p)

ServerNames == {"s1", "s2"}

\* Server definitions (opaque JSON objects): dL is written in the local
\* config, dP in preset configs, dU by hand in .cursor/mcp.json.
ServerDefs == {"dL", "dP", "dU"}

\* The most presets the local config declares.
MaxPresets == 2

\* An mcpServers object: server name -> a definition, "false" (canceled), or
\* "absent" (the object has no such key).
LocalMcpServers == [ServerNames -> {"absent", "false", "dL"}]
PresetMcpServers == [ServerNames -> {"absent", "false", "dP"}]

McpKeys(servers) == {n \in ServerNames : servers[n] # "absent"}

\* An entry of the mcpServers object of .cursor/mcp.json: a definition and
\* whether it carries the marker aicm: true.  def = "absent": no such key.
AbsentEntry == [def |-> "absent", aicm |-> FALSE]

\* .cursor/mcp.json: whether the file exists, its mcpServers, and whether it
\* has top-level keys other than mcpServers.
NoMcpFile ==
    [exists |-> FALSE, servers |-> [n \in ServerNames |-> AbsentEntry],
     other |-> FALSE]

\* The files the tool may find: no file, or one whose entries were written by
\* hand (dU, no marker) or by an earlier install (dL or dP, marked).
McpFiles ==
    {NoMcpFile} \cup
    [exists : {TRUE},
     servers : [ServerNames ->
                   {AbsentEntry, [def |-> "dU", aicm |-> FALSE],
                    [def |-> "dL", aicm |-> TRUE], [def |-> "dP", aicm |-> TRUE]}],
     other : BOOLEAN]

\* config.ts mergePresetMcpServers: a preset's server cancels a "false" of the
\* accumulated object, is added when the name is not yet defined, and is
\* ignored otherwise.
mergePresetMcpServers(configMcpServers, presetMcpServers) ==
    [n \in ServerNames |->
        IF presetMcpServers[n] = "absent" THEN configMcpServers[n]
        ELSE IF configMcpServers[n] = "false" THEN "absent"
        ELSE IF configMcpServers[n] = "absent" THEN presetMcpServers[n]
        ELSE configMcpServers[n]]

\* config.ts loadAllRules, the mcpServers it returns: the local object, then
\* each preset's merged in, in declaration order.
RECURSIVE loadAllRulesMcp(_, _, _)
loadAllRulesMcp(merged, presets, i) ==
    IF i > Len(presets) THEN merged
    ELSE loadAllRulesMcp(mergePresetMcpServers(merged, presets[i]), presets, i + 1)

\* install.ts writeMcpServersToFile: keep the existing entries without the
\* marker, add the resolved servers that are not "false" with the marker
\* (over a kept entry of the same name), keep the other top-level keys.
writeMcpServersToFileOverwrite(mcpServers, file) ==
    [exists |-> TRUE,
     servers |-> [n \in ServerNames |->
        IF mcpServers[n] \notin {"absent", "false"}
        THEN [def |-> mcpServers[n], aicm |-> TRUE]
        ELSE AbsentEntry],
     other |-> file.other]

writeMcpServersToFile(mcpServers, file) ==
    [exists |-> TRUE,
     servers |-> [n \in ServerNames |->
        IF mcpServers[n] \notin {"absent", "false"}
        THEN [def |-> mcpServers[n], aicm |-> TRUE]
        ELSE IF file.servers[n].aicm THEN AbsentEntry
        ELSE file.servers[n]],
     other |-> file.other]

\* clean.ts cleanMcpServers: drop the marked entries; remove the file when
\* nothing else is left in it; leave a file without marked entries alone.
cleanMcpServers(file) ==
    LET kept == [n \in ServerNames |->
                    IF file.servers[n].aicm THEN AbsentEntry
                    ELSE file.servers[n]]
    IN  IF ~file.exists \/ kept = file.servers THEN file
        ELSE IF (\A n \in ServerNames : kept[n] = AbsentEntry) /\ ~file.other
             THEN NoMcpFile
             ELSE [file EXCEPT !.servers = kept]

McpStart ==
    /\ mLocal \in LocalMcpServers
    /\ mPresets \in SeqsUpTo(PresetMcpServers, MaxPresets)
    /\ mMerged = [n \in ServerNames |-> "absent"]
    /\ mcpFile \in McpFiles
    /\ mLast = "none"

\* install.ts installPackage, the MCP part: load and merge the config, and
\* write the servers to the cursor target when the resolved object has keys.
McpInstall ==
    /\ mLast # "idle"
    /\ LET merged == loadAllRulesMcp(mLocal, mPresets, 1)
       IN  /\ mMerged' = merged
           /\ mcpFile' = IF McpKeys(merged) # {}
                         THEN writeMcpServersToFile(merged, mcpFile)
                         ELSE mcpFile
    /\ mLast' = "install"
    /\ UNCHANGED <<mLocal, mPresets>>
    /\ UNCHANGED mOthers

\* clean.ts cleanPackage, the MCP part.
McpClean ==
    /\ mLast # "idle"
    /\ mcpFile' = cleanMcpServers(mcpFile)
    /\ mLast' = "clean"
    /\ UNCHANGED <<mLocal, mPresets, mMerged>>
    /\ UNCHANGED mOthers

McpInit ==
    /\ McpStart /\ PresetIdle /\ RulesIdle /\ CommandsIdle /\ HooksIdle /\ RewriteIdle
    /\ AssetsIdle
    /\ OverridesIdle
    /\ TreeIdle
    /\ FilterIdle
    /\ WorkspaceIdle
    /\ ValidationIdle
    /\ LoadIdle
    /\ ReinstallIdle
    /\ NamespaceIdle

McpNext == McpInstall \/ McpClean

SpecMcp == McpInit /\ [][McpNext]_vars

\* C2: for every server name of the local config's mcpServers the installed
\* result is decided by the local value alone: a local definition is the
\* resolved and written definition, and a local false leaves the server out
\* of the resolved server set, whatever the presets define.
C2_LocalValueDecides ==
    mLast = "install" =>
        \A n \in ServerNames :
            /\ mLocal[n] = "dL" =>
                   /\ mMerged[n] = "dL"
                   /\ mcpFile.servers[n] = [def |-> "dL", aicm |-> TRUE]
            /\ mLocal[n] = "false" => mMerged[n] \in {"absent", "false"}

\* A hand-authored entry: present and without the marker.
McpUnmarked(file, n) == file.servers[n].def # "absent" /\ ~file.servers[n].aicm

\* C9 as claimed: across install and clean runs every entry of
\* .cursor/mcp.json without the marker stays present with its original
\* definition, and every entry the tool writes carries the marker.
C9_UnmarkedAlwaysKept ==
    [][\A n \in ServerNames :
          /\ McpUnmarked(mcpFile, n) => mcpFile'.servers[n] = mcpFile.servers[n]
          /\ (mcpFile'.servers[n] # mcpFile.servers[n]
                /\ mcpFile'.servers[n] # AbsentEntry) => mcpFile'.servers[n].aicm
      ]_vars

\* C9 amended: an entry without the marker stays present with its original
\* definition unless the install's resolved servers define the same name, in
\* which case the tool's marked definition takes its place; every entry the
\* tool writes carries the marker.
C9_UnmarkedKeptUnlessSameName ==
    [][\A n \in ServerNames :
          /\ McpUnmarked(mcpFile, n) =>
                \/ mcpFile'.servers[n] = mcpFile.servers[n]
                \/ /\ mLast' = "install"
                   /\ mMerged'[n] \in ServerDefs
                   /\ mcpFile'.servers[n] = [def |-> mMerged'[n], aicm |-> TRUE]
          /\ (McpUnmarked(mcpFile, n) /\ mLast' = "install"
                /\ mMerged'[n] \notin ServerDefs) =>
                mcpFile'.servers[n] = mcpFile.servers[n]
          /\ (mcpFile'.servers[n] # mcpFile.servers[n]
                /\ mcpFile'.servers[n] # AbsentEntry) => mcpFile'.servers[n].aicm
      ]_vars

\* An install wrote a marked server next to a hand-authored entry it kept.
C9_Witness ==
    /\ mLast = "install"
    /\ \E n, k \in ServerNames :
          /\ McpUnmarked(mcpFile, n)
          /\ mcpFile.servers[k].aicm
          /\ mMerged[k] = mcpFile.servers[k].def

(***************************************************************************)
(* Strings and paths.  A string is the sequence of its characters, so that *)
(* splitting and prefix tests are computed as the code computes them.  The *)
(* host is POSIX: path.sep is "/".                                         *)
(***************************************************************************)

PathSep == "/"

Dot == <<".">>
DotDot == <<".", ".">>

\* String.prototype.split(sep) for a one-character separator.
RECURSIVE SplitFrom(_, _, _, _)
SplitFrom(str, sep, i, cur) ==
    IF i > Len(str) THEN <<cur>>
    ELSE IF str[i] = sep
         THEN <<cur>> \o SplitFrom(str, sep, i + 1, <<>>)
         ELSE SplitFrom(str, sep, i + 1, Append(cur, str[i]))

Split(str, sep) == SplitFrom(str, sep, 1, <<>>)

StartsWithChar(str, c) == Len(str) > 0 /\ str[1] = c

\* String.prototype.startsWith and String.prototype.includes.
StartsWith(str, prefix) ==
    Len(str) >= Len(prefix) /\ SubSeq(str, 1, Len(prefix)) = prefix

Includes(str, sub) ==
    \E i \in 1..(Len(str) - Len(sub) + 1) : SubSeq(str, i, i + Len(sub) - 1) = sub

\* Array.prototype.join(sep) over strings.
RECURSIVE JoinWith(_, _)
JoinWith(segs, sep) ==
    IF segs = <<>> THEN <<>>
    ELSE IF Len(segs) = 1 THEN Head(segs)
    ELSE Head(segs) \o <<sep>> \o JoinWith(Tail(segs), sep)

\* path.join(base, ...segments), relative to base: empty and "." segments
\* are dropped and ".." removes the segment before it (or climbs above base).
RECURSIVE PathNormalize(_, _)
PathNormalize(segs, acc) ==
    IF segs = <<>> THEN acc
    ELSE LET h == Head(segs)
         IN  IF h = <<>> \/ h = Dot THEN PathNormalize(Tail(segs), acc)
             ELSE IF h = DotDot /\ acc # <<>> /\ acc[Len(acc)] # DotDot
                  THEN PathNormalize(Tail(segs), SubSeq(acc, 1, Len(acc) - 1))
                  ELSE PathNormalize(Tail(segs), Append(acc, h))

PathJoin(segs) == PathNormalize(segs, <<>>)

\* config.ts extractNamespaceFromPresetPath: a reference that starts with "@"
\* is split on "/" as it is; any other is split on path.sep and loses its
\* empty, "." and ".." parts.
NamespacePart(part) == Len(part) > 0 /\ part # Dot /\ part # DotDot

extractNamespaceFromPresetPath(presetPath) ==
    IF StartsWithChar(presetPath, "@") THEN Split(presetPath, "/")
    ELSE SelectSeq(Split(presetPath, PathSep), NamespacePart)

(***************************************************************************)
(* Rules: the resolved rule list (config.ts loadAllRules) and the files    *)
(* written under .cursor/rules/aicm (install.ts writeCursorRules).         *)
(***************************************************************************)

\* Rule names: the path of the .mdc file under rules/, extension stripped
\* (config.ts loadRulesFromDirectory): "a", "b", "p/a".
RuleNames == {<<"a">>, <<"b">>, <<"p", "/", "a">>}

\* Preset references as written in the config: "./p", "../p", "./q",
\* "./q/p", "@s/p".
PresetRefs ==
    {<<".", "/", "p">>, <<".", ".", "/", "p">>, <<".", "/", "q">>,
     <<".", "/", "q", "/", "p">>, <<"@", "s", "/", "p">>}

\* The most presets the config of the rules model declares.
MaxRulePresets == 2

NoPreset == <<>>

\* config.ts loadRulesFromDirectory: one rule per file; the content stands
\* for the file read (source and name tell the files apart).
loadRulesFromDirectory(names, source, presetName) ==
    [i \in 1..Cardinality(names) |->
        [name |-> SetToSeq(names)[i], source |-> source,
         presetName |-> presetName,
         content |-> <<source, presetName, SetToSeq(names)[i]>>]]

\* config.ts loadAllRules, the rules it returns: the local rules, then each
\* preset's in declaration order.
loadAllRulesRules(local, presets) ==
    loadRulesFromDirectory(local, "local", NoPreset) \o
    Flatten([i \in 1..Len(presets) |->
                loadRulesFromDirectory(presets[i].rules, "preset", presets[i].ref)])

\* install.ts writeCursorRules, the path of a rule's file under
\* .cursor/rules/aicm: path.join(dir, ...namespace, ...ruleNameParts).
RuleNameParts(rule) == SelectSeq(Split(rule.name, PathSep), LAMBDA x : x # <<>>)

RuleInstallPath(rule) ==
    IF rule.presetName # NoPreset
    THEN PathJoin(extractNamespaceFromPresetPath(rule.presetName) \o RuleNameParts(rule))
    ELSE PathJoin(RuleNameParts(rule))

\* install.ts writeCursorRules: the directory is emptied, then each rule is
\* written in turn; a later rule with the same path overwrites.
writeCursorRules(rules) ==
    {[path |-> RuleInstallPath(rules[i]), content |-> rules[i].content] :
        i \in {k \in 1..Len(rules) :
                 \A j \in (k + 1)..Len(rules) :
                    RuleInstallPath(rules[j]) # RuleInstallPath(rules[k])}}

RulesStart ==
    /\ rLocal \in SUBSET RuleNames
    /\ rPresets \in SeqsUpTo([ref : PresetRefs, rules : SUBSET RuleNames \ {{}}],
                             MaxRulePresets)
    /\ rRules = <<>>
    /\ rFiles = {}
    /\ rLast = "none"

\* install.ts installPackage, the rules part for the cursor target
\* (writeRulesToTargets): nothing is written for an empty rule list.
RulesInstall ==
    /\ rLast # "idle"
    /\ LET rules == loadAllRulesRules(rLocal, rPresets)
       IN  /\ rRules' = rules
           /\ rFiles' = IF Len(rules) > 0 THEN writeCursorRules(rules) ELSE rFiles
    /\ rLast' = "install"
    /\ UNCHANGED <<rLocal, rPresets>>
    /\ UNCHANGED rOthers

\* clean.ts cleanPackage: .cursor/rules/aicm is removed.
RulesClean ==
    /\ rLast # "idle"
    /\ rFiles' = {}
    /\ rLast' = "clean"
    /\ UNCHANGED <<rLocal, rPresets, rRules>>
    /\ UNCHANGED rOthers

RulesInit ==
    /\ RulesStart /\ PresetIdle /\ McpIdle /\ CommandsIdle /\ HooksIdle /\ RewriteIdle
    /\ AssetsIdle
    /\ OverridesIdle
    /\ TreeIdle
    /\ FilterIdle
    /\ WorkspaceIdle
    /\ ValidationIdle
    /\ LoadIdle
    /\ ReinstallIdle
    /\ NamespaceIdle

RulesNext == RulesInstall \/ RulesClean

SpecRules == RulesInit /\ [][RulesNext]_vars

\* Two rules come from different sources: one is local and the other from a
\* preset, or they come from two different preset references.
RuleSourcesDiffer(r1, r2) ==
    r1.source # r2.source \/ r1.presetName # r2.presetName

\* C3: rules never collide: after install any two rules of the resolved set
\* that come from different sources have different install paths, and the
\* file of each is present with its own content.
C3_RulesNeverCollide ==
    rLast = "install" =>
        \A i, j \in 1..Len(rRules) :
            RuleSourcesDiffer(rRules[i], rRules[j]) =>
                /\ RuleInstallPath(rRules[i]) # RuleInstallPath(rRules[j])
                /\ [path |-> RuleInstallPath(rRules[i]),
                    content |-> rRules[i].content] \in rFiles
                /\ [path |-> RuleInstallPath(rRules[j]),
                    content |-> rRules[j].content] \in rFiles

(***************************************************************************)
(* Commands and skills: the flat categories.  The resolved lists, the      *)
(* collision warning, the dedupe and the files written by installPackage   *)
(* (install.ts) and by the workspace root aggregate                        *)
(* (install-workspaces.ts).                                                *)
(***************************************************************************)

\* Command names, the path under commands/ without ".md": "d/r".
CommandNames == {<<"d", "/", "r">>}

\* Skill names, the directory under skills/: "k".
SkillNames == {<<"k">>}

\* Preset references of the commands model: "@s/p", "@s/q" (packages, so a
\* reference names the same preset in every package of the workspace).
CommandPresetRefs == {<<"@", "s", "/", "p">>, <<"@", "s", "/", "q">>}

\* The most presets a package of the commands model declares.
MaxCommandPresets == 2

\* The packages of the workspace, in discovery order.
PackageNames == <<"pkg-a", "pkg-b">>

RootLocation == "root"

Locations == Range(PackageNames) \cup {RootLocation}

\* A preset of the commands model provides a command, a skill or both.
CommandPresetEntries ==
    {e \in [ref : CommandPresetRefs, commands : SUBSET CommandNames,
            skills : SUBSET SkillNames] : e.commands \cup e.skills # {}}

CommandPresetLists ==
    {l \in SeqsUpTo(CommandPresetEntries, MaxCommandPresets) :
        \A i, j \in 1..Len(l) : i # j => l[i].ref # l[j].ref}

\* The content of a file: a local file belongs to its package, a preset's
\* file to the preset.
LocalContent(owner, name) == <<"local", owner, name>>
PresetContent(ref, name) == <<"preset", ref, name>>

\* config.ts loadCommandsFromDirectory.
loadCommandsFromDirectory(names, source, presetName, owner) ==
    [i \in 1..Cardinality(names) |->
        [name |-> SetToSeq(names)[i], source |-> source,
         presetName |-> presetName,
         content |-> IF source = "local"
                     THEN LocalContent(owner, SetToSeq(names)[i])
                     ELSE PresetContent(presetName, SetToSeq(names)[i])]]

\* config.ts loadAllRules, the commands it returns: the local commands, then
\* each preset's in declaration order.
loadAllRulesCommands(pkg) ==
    loadCommandsFromDirectory(pkg.commands, "local", NoPreset, pkg.name) \o
    Flatten([i \in 1..Len(pkg.presets) |->
                loadCommandsFromDirectory(pkg.presets[i].commands, "preset",
                                          pkg.presets[i].ref, pkg.name)])

\* The skills of the resolved config, in the same order (the loader of the
\* skills is described by spec.md 4.3 only).
loadAllRulesSkills(pkg) ==
    loadCommandsFromDirectory(pkg.skills, "local", NoPreset, pkg.name) \o
    Flatten([i \in 1..Len(pkg.presets) |->
                loadCommandsFromDirectory(pkg.presets[i].skills, "preset",
                                          pkg.presets[i].ref, pkg.name)])

\* install.ts warnPresetCommandCollisions and warnPresetSkillCollisions: per
\* name, the presets of the entries that carry a presetName and the preset
\* of the last such entry; a warning if there is more than one preset.
CollisionPresets(entries, name) ==
    {entries[i].presetName :
        i \in {k \in 1..Len(entries) :
                 entries[k].presetName # NoPreset /\ entries[k].name = name}}

CollisionLastPreset(entries, name) ==
    LET idx == {k \in 1..Len(entries) :
                  entries[k].presetName # NoPreset /\ entries[k].name = name}
    IN  entries[CHOOSE k \in idx : \A j \in idx : j <= k].presetName

warnPresetCommandCollisions(commands) ==
    {[name |-> n, presets |-> CollisionPresets(commands, n),
      chosen |-> CollisionLastPreset(commands, n)] :
        n \in {m \in {commands[i].name : i \in 1..Len(commands)} :
                 Cardinality(CollisionPresets(commands, m)) > 1}}

warnPresetSkillCollisions(skills) ==
    {[name |-> n, presets |-> CollisionPresets(skills, n),
      chosen |-> CollisionLastPreset(skills, n)] :
        n \in {m \in {skills[i].name : i \in 1..Len(skills)} :
                 Cardinality(CollisionPresets(skills, m)) > 1}}

\* Map.set(entry.name, entry): a present key keeps its position and takes
\* the new value, a new key goes to the end.
MapSet(unique, entry) ==
    IF \E i \in 1..Len(unique) : unique[i].name = entry.name
    THEN [i \in 1..Len(unique) |->
             IF unique[i].name = entry.name THEN entry ELSE unique[i]]
    ELSE Append(unique, entry)

\* A map that keeps the first value of a key.
MapSetIfAbsent(unique, entry) ==
    IF \E i \in 1..Len(unique) : unique[i].name = entry.name
    THEN unique
    ELSE Append(unique, entry)

RECURSIVE MapSetAll(_, _)
MapSetAll(unique, entries) ==
    IF entries = <<>> THEN unique
    ELSE MapSetAll(MapSet(unique, Head(entries)), Tail(entries))

RECURSIVE MapSetAllIfAbsent(_, _)
MapSetAllIfAbsent(unique, entries) ==
    IF entries = <<>> THEN unique
    ELSE MapSetAllIfAbsent(MapSetIfAbsent(unique, Head(entries)), Tail(entries))

\* A dedupe in which the first entry of a name wins.
dedupeCommandsFirstWins(commands) == MapSetAllIfAbsent(<<>>, commands)

\* install.ts dedupeCommandsForInstall: the last entry of a name wins.
dedupeCommandsForInstall(commands) == MapSetAll(<<>>, commands)

\* install.ts dedupeSkillsForInstall: the last entry of a name wins.
dedupeSkillsForInstall(skills) == MapSetAll(<<>>, skills)

\* install.ts writeCursorCommands: the path of a command's file under
\* .cursor/commands/aicm and the depth handed to the path rewriter.
CommandNameParts(command) ==
    SelectSeq(Split(command.name, "/"), LAMBDA x : x # <<>>)

CommandInstallPath(command) == PathJoin(CommandNameParts(command))

CommandInstallDepth(command) == 2 + Len(CommandNameParts(command)) - 1

\* The text written for a command: its content after
\* rewriteAssetReferences(content, presetName, depth).
CommandWritten(command) ==
    [content |-> command.content, presetName |-> command.presetName,
     depth |-> CommandInstallDepth(command)]

\* install.ts writeCursorCommands: the directory is removed, then each
\* command is written in turn.
writeCursorCommands(commands) ==
    {[path |-> CommandInstallPath(commands[i]),
      content |-> CommandWritten(commands[i])] :
        i \in {k \in 1..Len(commands) :
                 \A j \in (k + 1)..Len(commands) :
                    CommandInstallPath(commands[j]) # CommandInstallPath(commands[k])}}

\* install.ts writeSkillToTarget: the skill directory and its .aicm.json.
SkillWritten(skill) ==
    [name |-> skill.name, content |-> skill.content,
     aicm |-> [source |-> skill.source, presetName |-> skill.presetName]]

\* install.ts writeSkillsToTargets: each skill replaces the directory of
\* its name; the other directories of .cursor/skills stay.
writeSkillsToTargets(skills, dir) ==
    {d \in dir : \A i \in 1..Len(skills) : skills[i].name # d.name}
    \cup {SkillWritten(skills[i]) : i \in 1..Len(skills)}

\* install-workspaces.ts mergeWorkspaceCommands: the packages' commands in
\* package order; a preset command whose presetName::name was seen before
\* is skipped.
RECURSIVE MergeCommandsFrom(_, _, _)
MergeCommandsFrom(all, i, seenPresetCommands) ==
    IF i > Len(all) THEN <<>>
    ELSE LET command == all[i]
             presetKey == <<command.presetName, command.name>>
         IN  IF command.presetName # NoPreset
             THEN IF presetKey \in seenPresetCommands
                  THEN MergeCommandsFrom(all, i + 1, seenPresetCommands)
                  ELSE <<command>> \o
                       MergeCommandsFrom(all, i + 1,
                                         seenPresetCommands \cup {presetKey})
             ELSE <<command>> \o MergeCommandsFrom(all, i + 1, seenPresetCommands)

mergeWorkspaceCommands(packages) ==
    MergeCommandsFrom(
        Flatten([i \in 1..Len(packages) |-> loadAllRulesCommands(packages[i])]),
        1, {})

\* The warnings of a run at a location.
WarningsAt(loc, kind, warnings) ==
    {[at |-> loc, kind |-> kind, name |-> w.name, presets |-> w.presets,
      chosen |-> w.chosen] : w \in warnings}

\* install.ts installPackage, its warnings for one package.
PackageWarnings(pkg) ==
    WarningsAt(pkg.name, "command",
               warnPresetCommandCollisions(loadAllRulesCommands(pkg)))
    \cup WarningsAt(pkg.name, "skill",
                    warnPresetSkillCollisions(loadAllRulesSkills(pkg)))

\* install.ts installPackage, the command files of one package.
PackageCommandFiles(pkg) ==
    writeCursorCommands(dedupeCommandsForInstall(loadAllRulesCommands(pkg)))

\* install.ts installPackage, the skills of one package.
PackageSkills(pkg, dir) ==
    writeSkillsToTargets(dedupeSkillsForInstall(loadAllRulesSkills(pkg)), dir)

CommandsStart ==
    /\ cPackages \in
          {[i \in 1..Len(PackageNames) |->
               [name |-> PackageNames[i], commands |-> cfg[i].commands,
                skills |-> cfg[i].skills, presets |-> cfg[i].presets]] :
             cfg \in [1..Len(PackageNames) ->
                        [commands : SUBSET CommandNames,
                         skills : SUBSET SkillNames,
                         presets : CommandPresetLists]]}
    /\ cFiles = [loc \in Locations |-> {}]
    /\ cSkills = [loc \in Locations |-> {}]
    /\ cWarnings = {}
    /\ cLast = "none"

\* install.ts install -> installPackage, run in the first package.
CommandsInstall ==
    /\ cLast # "idle"
    /\ LET pkg == cPackages[1]
       IN  /\ cWarnings' = PackageWarnings(pkg)
           /\ cFiles' = [cFiles EXCEPT ![pkg.name] = PackageCommandFiles(pkg)]
           /\ cSkills' = [cSkills EXCEPT
                            ![pkg.name] = PackageSkills(pkg, cSkills[pkg.name])]
    /\ cLast' = "install"
    /\ UNCHANGED cPackages
    /\ UNCHANGED cOthers

\* install-workspaces.ts installWorkspaces, run at the workspace root: every
\* package is installed, then the merged commands are written at the root.
CommandsInstallWorkspaces ==
    /\ cLast # "idle"
    /\ LET workspaceCommands == mergeWorkspaceCommands(cPackages)
           pkgOf(loc) == cPackages[CHOOSE i \in 1..Len(cPackages) :
                                      cPackages[i].name = loc]
       IN  /\ cWarnings' =
                UNION {PackageWarnings(cPackages[i]) : i \in 1..Len(cPackages)}
                \cup (IF Len(workspaceCommands) > 0
                      THEN WarningsAt(RootLocation, "command",
                                      warnPresetCommandCollisions(workspaceCommands))
                      ELSE {})
           /\ cFiles' =
                [loc \in Locations |->
                    IF loc = RootLocation
                    THEN IF Len(workspaceCommands) > 0
                         THEN writeCursorCommands(
                                  dedupeCommandsForInstall(workspaceCommands))
                         ELSE cFiles[loc]
                    ELSE PackageCommandFiles(pkgOf(loc))]
           /\ cSkills' =
                [loc \in Locations |->
                    IF loc = RootLocation THEN cSkills[loc]
                    ELSE PackageSkills(pkgOf(loc), cSkills[loc])]
    /\ cLast' = "workspaces"
    /\ UNCHANGED cPackages
    /\ UNCHANGED cOthers

CommandsInit ==
    /\ CommandsStart /\ PresetIdle /\ McpIdle /\ RulesIdle /\ HooksIdle /\ RewriteIdle
    /\ AssetsIdle
    /\ OverridesIdle
    /\ TreeIdle
    /\ FilterIdle
    /\ WorkspaceIdle
    /\ ValidationIdle
    /\ LoadIdle
    /\ ReinstallIdle
    /\ NamespaceIdle

CommandsNext == CommandsInstall \/ CommandsInstallWorkspaces

SpecCommands == CommandsInit /\ [][CommandsNext]_vars

\* The packages installed by the last run.
InstalledPackages ==
    IF cLast = "install" THEN {1}
    ELSE IF cLast = "workspaces" THEN 1..Len(cPackages)
    ELSE {}

\* The presets of a package that provide a command, or a skill, of a name:
\* their positions in the presets list.
CommandProviders(pkg, name) ==
    {i \in 1..Len(pkg.presets) : name \in pkg.presets[i].commands}

SkillProviders(pkg, name) ==
    {i \in 1..Len(pkg.presets) : name \in pkg.presets[i].skills}

LastDeclared(pkg, providers) ==
    pkg.presets[CHOOSE i \in providers : \A j \in providers : j <= i].ref

CommandFilePath(name) == SelectSeq(Split(name, "/"), LAMBDA x : x # <<>>)

\* C4: when two or more presets of a package provide a command (or a
\* skill) of the same name, the package's install leaves exactly one entry
\* of that name, and its content is that of the preset declared last in the
\* presets list.
C4_LastDeclaredPresetWins ==
    \A k \in InstalledPackages :
        LET pkg == cPackages[k]
        IN  /\ \A name \in CommandNames :
                  Cardinality(CommandProviders(pkg, name)) >= 2 =>
                      LET last == LastDeclared(pkg, CommandProviders(pkg, name))
                          under == {f \in cFiles[pkg.name] :
                                      f.path = CommandFilePath(name)}
                      IN  /\ Cardinality(under) = 1
                          /\ \A f \in under :
                                /\ f.content.content = PresetContent(last, name)
                                /\ f.content.presetName = last
            /\ \A name \in SkillNames :
                  Cardinality(SkillProviders(pkg, name)) >= 2 =>
                      LET last == LastDeclared(pkg, SkillProviders(pkg, name))
                          under == {d \in cSkills[pkg.name] : d.name = name}
                      IN  /\ Cardinality(under) = 1
                          /\ \A d \in under :
                                /\ d.content = PresetContent(last, name)
                                /\ d.aicm.presetName = last

C4_Witness ==
    /\ cLast = "install"
    /\ \E name \in CommandNames :
          /\ Cardinality(CommandProviders(cPackages[1], name)) >= 2
          /\ name \in cPackages[1].commands
          /\ \E f \in cFiles[cPackages[1].name] : f.path = CommandFilePath(name)
    /\ \E name \in SkillNames :
          /\ Cardinality(SkillProviders(cPackages[1], name)) >= 2
          /\ \E d \in cSkills[cPackages[1].name] : d.name = name

\* The packages whose commands reach a location in the last run.
ContributingPackages(loc) ==
    IF loc = RootLocation
    THEN (IF cLast = "workspaces" THEN 1..Len(cPackages) ELSE {})
    ELSE {k \in InstalledPackages : cPackages[k].name = loc}

\* The presets that provide a command of a name to a location.
ContributingPresets(loc, name) ==
    UNION {{cPackages[k].presets[i].ref :
               i \in CommandProviders(cPackages[k], name)} :
             k \in ContributingPackages(loc)}

\* C5: whenever two or more presets provide a command name to a location (a
\* package, or the workspace root aggregate), a warning is emitted there
\* that names every contributing preset, and the preset it names as chosen
\* is the one whose content is installed under that name.
C5_WarningNamesInstalled ==
    \A loc \in Locations : \A name \in CommandNames :
        Cardinality(ContributingPresets(loc, name)) >= 2 =>
            \E w \in cWarnings :
                /\ w.at = loc /\ w.kind = "command" /\ w.name = name
                /\ w.presets = ContributingPresets(loc, name)
                /\ \E f \in cFiles[loc] : f.path = CommandFilePath(name)
                /\ \A f \in cFiles[loc] :
                      f.path = CommandFilePath(name) =>
                          /\ f.content.presetName = w.chosen
                          /\ f.content.content = PresetContent(w.chosen, name)

\* C5 for the install of one package alone.
SinglePackageWarningNamesInstalled ==
    cLast = "install" =>
        \A name \in CommandNames :
            Cardinality(ContributingPresets(PackageNames[1], name)) >= 2 =>
                \E w \in cWarnings :
                    /\ w.at = PackageNames[1] /\ w.kind = "command"
                    /\ w.name = name
                    /\ w.presets = ContributingPresets(PackageNames[1], name)
                    /\ \E f \in cFiles[PackageNames[1]] :
                          /\ f.path = CommandFilePath(name)
                          /\ f.content.presetName = w.chosen
                          /\ f.content.content = PresetContent(w.chosen, name)

(***************************************************************************)
(* Hooks: the per-source hooks.json and hooks/ files (hooks.ts             *)
(* loadHooksFromDirectory), the merge (mergeHooksConfigs), the file dedupe *)
(* (dedupeHookFiles), the write into .cursor (writeHooksToCursor) and the  *)
(* clean (clean.ts cleanHooks).                                            *)
(***************************************************************************)

HookTypes == {"stop", "afterFileEdit"}

\* "hooks/aicm/", the substring by which install and clean recognise the
\* entries of the tool, and "./hooks/aicm/", the prefix install writes.
ManagedMarker == <<"h", "o", "o", "k", "s", "/", "a", "i", "c", "m", "/">>
ManagedPrefix == <<".", "/">> \o ManagedMarker

\* The file every source with a hooks.json has in its hooks/ directory: "a".
HookDirFiles == {<<"a">>}

\* The commands of a source's hooks.json: "./hooks/a", the script of the
\* source, and "e", a command that is not a relative path.
OwnScript == <<".", "/", "h", "o", "o", "k", "s", "/", "a">>
PlainCommand == <<"e">>

\* The binding lists of a source for one hook type.
HookBindingLists == {<<>>, <<OwnScript, PlainCommand>>}

\* Preset references of the hooks model: "./p", "../p", "./q".
HookPresetRefs ==
    {<<".", "/", "p">>, <<".", ".", "/", "p">>, <<".", "/", "q">>}

\* Hand-authored commands of an existing .cursor/hooks.json: "./m", and
\* "./x/hooks/aicm/y", a script of the user under .cursor/x/.
UserScript == <<".", "/", "m">>
UserNestedScript == <<".", "/", "x", "/">> \o ManagedMarker \o <<"y">>
UserCommands == {UserScript, UserNestedScript}

\* The size of the input: presets, hand-authored entries and packages
\* beyond the first, together.
MaxHookInputs == 2

NoHooks == [t \in HookTypes |-> <<>>]

NoJson == [exists |-> FALSE, hooks |-> NoHooks]

\* hooks.ts countHooks.
RECURSIVE CountHooksOver(_, _)
CountHooksOver(hooks, types) ==
    IF types = {} THEN 0
    ELSE LET t == CHOOSE t \in types : TRUE
         IN  Len(hooks[t]) + CountHooksOver(hooks, types \ {t})

countHooks(hooks) == CountHooksOver(hooks, HookTypes)

\* The name under which a hook file is installed (hooks.ts
\* loadHooksFromDirectory): a preset's file is put under the namespace of
\* the preset with path.posix.join, a local file keeps its relative path.
HookFileName(relativePath, source, presetName) ==
    IF source = "preset" /\ presetName # NoPreset
    THEN JoinWith(PathJoin(extractNamespaceFromPresetPath(presetName)
                           \o <<relativePath>>), "/")
    ELSE relativePath

\* The path of a file of a source's hooks/ directory and the path a command
\* resolves to, both relative to the directory of the hooks.json.
HookSourcePath(relativePath) == PathJoin(<<<<"h", "o", "o", "k", "s">>>> \o Split(relativePath, PathSep))
HookResolvedPath(commandPath) == PathJoin(Split(commandPath, PathSep))

IsRelativeCommand(commandPath) ==
    StartsWith(commandPath, <<".", "/">>) \/ StartsWith(commandPath, <<".", ".", "/">>)

\* hooks.ts rewriteHooksConfigForNamespace: a relative command becomes the
\* name of the hook file it resolves to, or is dropped when there is none;
\* any other command stays.
RECURSIVE RewriteCommandsForNamespace(_, _)
RewriteCommandsForNamespace(hookCommands, hookFiles) ==
    IF hookCommands = <<>> THEN <<>>
    ELSE LET commandPath == Head(hookCommands)
             rest == RewriteCommandsForNamespace(Tail(hookCommands), hookFiles)
             found == {i \in 1..Len(hookFiles) :
                         hookFiles[i].sourcePath = HookResolvedPath(commandPath)}
         IN  IF IsRelativeCommand(commandPath)
             THEN IF found # {}
                  THEN <<hookFiles[CHOOSE i \in found : \A j \in found : j <= i].name>> \o rest
                  ELSE rest
             ELSE <<commandPath>> \o rest

rewriteHooksConfigForNamespace(hooks, hookFiles) ==
    [t \in HookTypes |-> RewriteCommandsForNamespace(hooks[t], hookFiles)]

\* hooks.ts loadHooksFromDirectory: nothing without a hooks.json; else the
\* files of hooks/ under their install names and the rewritten config.
loadHooksFromDirectory(src, source, presetName, owner) ==
    IF ~src.exists THEN [config |-> NoHooks, files |-> <<>>]
    ELSE LET hookFiles ==
                 [i \in 1..Cardinality(HookDirFiles) |->
                     [name |-> HookFileName(SetToSeq(HookDirFiles)[i], source, presetName),
                      sourcePath |-> HookSourcePath(SetToSeq(HookDirFiles)[i]),
                      source |-> source, presetName |-> presetName,
                      content |-> IF source = "local"
                                  THEN LocalContent(owner, SetToSeq(HookDirFiles)[i])
                                  ELSE PresetContent(presetName, SetToSeq(HookDirFiles)[i])]]
         IN  [config |-> rewriteHooksConfigForNamespace(src.hooks, hookFiles),
              files |-> hookFiles]

\* A merge in which a later config replaces the list of a hook type.
RECURSIVE mergeHooksConfigsOverride(_)
mergeHooksConfigsOverride(configs) ==
    IF configs = <<>> THEN NoHooks
    ELSE LET before == mergeHooksConfigsOverride(SubSeq(configs, 1, Len(configs) - 1))
             config == configs[Len(configs)]
         IN  [t \in HookTypes |-> IF config[t] # <<>> THEN config[t] ELSE before[t]]

\* hooks.ts mergeHooksConfigs: per hook type the lists of the configs are
\* concatenated in the order of the configs.
RECURSIVE mergeHooksConfigs(_)
mergeHooksConfigs(configs) ==
    IF configs = <<>> THEN NoHooks
    ELSE LET before == mergeHooksConfigs(SubSeq(configs, 1, Len(configs) - 1))
             config == configs[Len(configs)]
         IN  [t \in HookTypes |-> before[t] \o config[t]]

\* The sources of a package in processing order (config.ts loadAllRules):
\* the local directory if it has a hooks.json, then each preset.
HookSourceLoads(pkg) ==
    (IF pkg.local.exists
     THEN <<loadHooksFromDirectory(pkg.local, "local", NoPreset, pkg.name)>>
     ELSE <<>>) \o
    [i \in 1..Len(pkg.presets) |->
        loadHooksFromDirectory(pkg.presets[i], "preset", pkg.presets[i].ref, pkg.name)]

\* config.ts loadAllRules, the hooks and the hook files it returns.
loadAllRulesHooks(pkg) ==
    LET loads == HookSourceLoads(pkg)
    IN  [hooks |-> mergeHooksConfigs([i \in 1..Len(loads) |-> loads[i].config]),
         hookFiles |-> Flatten([i \in 1..Len(loads) |-> loads[i].files])]

\* A dedupe in which the first file of a name wins.
dedupeHookFilesFirstWins(hookFiles) == MapSetAllIfAbsent(<<>>, hookFiles)

\* hooks.ts dedupeHookFiles: a Map keyed by the install name; the last file
\* of a name wins.
dedupeHookFiles(hookFiles) == MapSetAll(<<>>, hookFiles)

\* hooks.ts rewriteHooksConfigToManagedDir: "./hooks/aicm/" is put before
\* every command.
rewriteHooksConfigToManagedDir(hooks) ==
    [t \in HookTypes |->
        [i \in 1..Len(hooks[t]) |->
            IF hooks[t][i] # <<>> THEN ManagedPrefix \o hooks[t][i] ELSE hooks[t][i]]]

\* The entries install and clean take for the user's: those whose command
\* does not include "hooks/aicm/".
IsUserCommand(command) == ~Includes(command, ManagedMarker)

\* hooks.ts writeHooksToCursor, the files of .cursor/hooks/aicm: the
\* directory is emptied and the deduped files are written in turn.
HookInstallPath(hookFile) == PathJoin(Split(hookFile.name, "/"))

writeHooksToCursorFiles(hookFiles) ==
    LET deduped == dedupeHookFiles(hookFiles)
    IN  {[path |-> HookInstallPath(deduped[i]), content |-> deduped[i].content] :
            i \in {k \in 1..Len(deduped) :
                     \A j \in (k + 1)..Len(deduped) :
                        HookInstallPath(deduped[j]) # HookInstallPath(deduped[k])}}

\* hooks.ts writeHooksToCursor, the hooks.json written: the user's entries
\* of the existing file first, then the entries of the tool.
writeHooksToCursorJson(hooks, json) ==
    LET finalConfig == rewriteHooksConfigToManagedDir(hooks)
    IN  [exists |-> TRUE,
         hooks |-> [t \in HookTypes |->
                      (IF json.exists THEN SelectSeq(json.hooks[t], IsUserCommand)
                       ELSE <<>>) \o finalConfig[t]]]

\* clean.ts cleanHooks, the hooks.json it leaves: rewritten without the
\* entries that include "hooks/aicm/" if there is one, removed if nothing
\* else is in it.
cleanHooks(json) ==
    LET userHooks == [t \in HookTypes |-> SelectSeq(json.hooks[t], IsUserCommand)]
        removedAny == \E t \in HookTypes : Len(userHooks[t]) < Len(json.hooks[t])
    IN  IF ~json.exists \/ ~removedAny THEN json
        ELSE IF countHooks(userHooks) = 0 THEN NoJson
        ELSE [exists |-> TRUE, hooks |-> userHooks]

\* The hooks.json of a source of the hooks model.
HookSourceConfigs == [HookTypes -> HookBindingLists]

HookLocals ==
    {[exists |-> FALSE, hooks |-> NoHooks]}
    \cup [exists : {TRUE}, hooks : HookSourceConfigs]

HookPresetEntries ==
    [ref : HookPresetRefs, exists : {TRUE}, hooks : HookSourceConfigs]

\* The preset lists of a given length, no reference twice.
HookPresetListsOfLen(n) ==
    {l \in [1..n -> HookPresetEntries] :
        \A i, j \in 1..n : i # j => l[i].ref # l[j].ref}

\* The .cursor/hooks.json files with at most m hand-authored entries.
UserJsonsUpTo(m) ==
    {NoJson} \cup
    {[exists |-> TRUE, hooks |-> h] :
        h \in {g \in [HookTypes -> SeqsUpTo(UserCommands, m)] : countHooks(g) <= m}}

EverywhereNone == [loc \in Locations |-> NoJson]

\* Either one package with presets and a hooks.json of the user in its
\* .cursor, or a workspace of packages with local hooks and a hooks.json of
\* the user at the root.
HooksStart ==
    /\ \/ \E n \in 0..MaxHookInputs :
             \E local \in HookLocals, presets \in HookPresetListsOfLen(n),
                json \in UserJsonsUpTo(MaxHookInputs - n) :
                /\ hPackages = <<[name |-> PackageNames[1], local |-> local,
                                  presets |-> presets]>>
                /\ hJson = [EverywhereNone EXCEPT ![PackageNames[1]] = json]
       \/ \E locals \in [1..Len(PackageNames) -> HookLocals],
             json \in UserJsonsUpTo(MaxHookInputs - (Len(PackageNames) - 1)) :
             /\ hPackages = [i \in 1..Len(PackageNames) |->
                               [name |-> PackageNames[i], local |-> locals[i],
                                presets |-> <<>>]]
             /\ hJson = [EverywhereNone EXCEPT ![RootLocation] = json]
    /\ hFiles = [loc \in Locations |-> {}]
    /\ hMerged = [loc \in Locations |-> NoHooks]
    /\ hLoaded = [loc \in Locations |-> <<>>]
    /\ hLast = "none"

\* install.ts installPackage -> writeHooksToTargets -> writeHooksToCursor:
\* written when the resolved config has a hook or a hook file.
PackageWritesHooks(pkg) ==
    countHooks(loadAllRulesHooks(pkg).hooks) > 0
    \/ Len(loadAllRulesHooks(pkg).hookFiles) > 0

HookPackageAt(loc) ==
    hPackages[CHOOSE i \in 1..Len(hPackages) : hPackages[i].name = loc]

\* install.ts install -> installPackage, for a package that is no workspace.
HooksInstall ==
    /\ hLast # "idle"
    /\ Len(hPackages) = 1
    /\ LET pkg == hPackages[1]
           resolved == loadAllRulesHooks(pkg)
       IN  /\ hMerged' = [hMerged EXCEPT ![pkg.name] = resolved.hooks]
           /\ IF PackageWritesHooks(pkg)
              THEN /\ hFiles' = [hFiles EXCEPT
                                   ![pkg.name] = writeHooksToCursorFiles(resolved.hookFiles)]
                   /\ hJson' = [hJson EXCEPT
                                  ![pkg.name] = writeHooksToCursorJson(resolved.hooks, @)]
                   /\ hLoaded' = [hLoaded EXCEPT ![pkg.name] = resolved.hookFiles]
              ELSE UNCHANGED <<hFiles, hJson, hLoaded>>
    /\ hLast' = "install"
    /\ UNCHANGED hPackages
    /\ UNCHANGED hOthers

\* install-workspaces.ts mergeWorkspaceHooks: the packages' merged configs
\* are merged in package order and their hook files deduped.
mergeWorkspaceHooks(packages) ==
    [merged |-> mergeHooksConfigs(
                    [i \in 1..Len(packages) |-> loadAllRulesHooks(packages[i]).hooks]),
     hookFiles |-> dedupeHookFiles(
                    Flatten([i \in 1..Len(packages) |->
                                loadAllRulesHooks(packages[i]).hookFiles]))]

\* install-workspaces.ts installWorkspaces: every package is installed, then
\* the merged hooks are written at the root.
HooksInstallWorkspaces ==
    /\ hLast # "idle"
    /\ Len(hPackages) > 1
    /\ LET root == mergeWorkspaceHooks(hPackages)
           writesRoot == countHooks(root.merged) > 0 \/ Len(root.hookFiles) > 0
           isPkg(loc) == loc # RootLocation
           writes(loc) == IF isPkg(loc) THEN PackageWritesHooks(HookPackageAt(loc))
                          ELSE writesRoot
           hooksAt(loc) == IF isPkg(loc) THEN loadAllRulesHooks(HookPackageAt(loc)).hooks
                           ELSE root.merged
           filesAt(loc) == IF isPkg(loc)
                           THEN loadAllRulesHooks(HookPackageAt(loc)).hookFiles
                           ELSE root.hookFiles
           loadedAt(loc) == IF isPkg(loc)
                            THEN loadAllRulesHooks(HookPackageAt(loc)).hookFiles
                            ELSE Flatten([i \in 1..Len(hPackages) |->
                                             loadAllRulesHooks(hPackages[i]).hookFiles])
       IN  /\ hMerged' = [loc \in Locations |-> hooksAt(loc)]
           /\ hFiles' = [loc \in Locations |->
                           IF writes(loc) THEN writeHooksToCursorFiles(filesAt(loc))
                           ELSE hFiles[loc]]
           /\ hJson' = [loc \in Locations |->
                          IF writes(loc)
                          THEN writeHooksToCursorJson(hooksAt(loc), hJson[loc])
                          ELSE hJson[loc]]
           /\ hLoaded' = [loc \in Locations |->
                            IF writes(loc) THEN loadedAt(loc) ELSE hLoaded[loc]]
    /\ hLast' = "workspaces"
    /\ UNCHANGED hPackages
    /\ UNCHANGED hOthers

\* clean.ts clean: cleanPackage in the package, or cleanWorkspaces in every
\* package and at the root; .cursor/hooks/aicm is removed and hooks.json is
\* cleaned.
HooksClean ==
    /\ hLast # "idle"
    /\ LET cleaned == IF Len(hPackages) = 1 THEN {hPackages[1].name} ELSE Locations
       IN  /\ hFiles' = [loc \in Locations |->
                           IF loc \in cleaned THEN {} ELSE hFiles[loc]]
           /\ hJson' = [loc \in Locations |->
                          IF loc \in cleaned THEN cleanHooks(hJson[loc]) ELSE hJson[loc]]
           /\ hLoaded' = [loc \in Locations |->
                            IF loc \in cleaned THEN <<>> ELSE hLoaded[loc]]
    /\ hLast' = "clean"
    /\ UNCHANGED <<hPackages, hMerged>>
    /\ UNCHANGED hOthers

HooksInit ==
    /\ HooksStart /\ PresetIdle /\ McpIdle /\ RulesIdle /\ CommandsIdle /\ RewriteIdle
    /\ AssetsIdle
    /\ OverridesIdle
    /\ TreeIdle
    /\ FilterIdle
    /\ WorkspaceIdle
    /\ ValidationIdle
    /\ LoadIdle
    /\ ReinstallIdle
    /\ NamespaceIdle

HooksNext == HooksInstall \/ HooksInstallWorkspaces \/ HooksClean

SpecHooks == HooksInit /\ [][HooksNext]_vars

\* The packages installed by the last run.
InstalledHookPackages ==
    IF hLast \in {"install", "workspaces"} THEN 1..Len(hPackages) ELSE {}

\* The binding lists of the sources of a package, in processing order.
HookSourceLists(pkg) ==
    LET loads == HookSourceLoads(pkg)
    IN  [i \in 1..Len(loads) |-> loads[i].config]

\* The number of bindings of a hook type in the sources before source i.
RECURSIVE BindingsBefore(_, _, _)
BindingsBefore(lists, i, t) ==
    IF i <= 1 THEN 0
    ELSE BindingsBefore(lists, i - 1, t) + Len(lists[i - 1][t])

HookFilePathOf(name) == PathJoin(Split(name, "/"))

\* C7: after the hook files are deduped and written, each installed name
\* has exactly one file, with the content of the last source that supplies
\* the name (the last package at the workspace root), and no other file is
\* in the managed directory.
C7_LastHookFileWins ==
    \A loc \in Locations :
        LET all == hLoaded[loc]
        IN  /\ \A i \in 1..Len(all) :
                  LET same == {j \in 1..Len(all) : all[j].name = all[i].name}
                      last == CHOOSE j \in same : \A m \in same : m <= j
                  IN  {f \in hFiles[loc] : f.path = HookFilePathOf(all[i].name)}
                          = {[path |-> HookFilePathOf(all[i].name),
                              content |-> all[last].content]}
            /\ \A f \in hFiles[loc] :
                  \E i \in 1..Len(all) : f.path = HookFilePathOf(all[i].name)

C7_Witness ==
    \E loc \in Locations : \E i, j \in 1..Len(hLoaded[loc]) :
        /\ i < j
        /\ hLoaded[loc][i].name = hLoaded[loc][j].name
        /\ hLoaded[loc][i].content # hLoaded[loc][j].content
        /\ \E f \in hFiles[loc] : f.content = hLoaded[loc][j].content

\* A command points into the managed hooks subdirectory: relative to
\* .cursor, its path lies under hooks/aicm.
PointsIntoManagedDir(command) ==
    LET segs == PathJoin(Split(command, "/"))
    IN  /\ Len(segs) >= 2
        /\ segs[1] = <<"h", "o", "o", "k", "s">>
        /\ segs[2] = <<"a", "i", "c", "m">>

IsHandAuthored(command) == ~PointsIntoManagedDir(command)

\* C8: across install and clean runs the hand-authored entries of every
\* hooks.json (those that do not point into the managed hooks
\* subdirectory) stay as they are: under the same hook type, unmodified and
\* in the same order.
C8_HandAuthoredPreserved ==
    [][\A loc \in Locations : \A t \in HookTypes :
          SelectSeq(hJson'[loc].hooks[t], IsHandAuthored)
              = SelectSeq(hJson[loc].hooks[t], IsHandAuthored)]_vars

(***************************************************************************)
(* Path rewriter: install.ts rewriteAssetReferences (cursor target) and    *)
(* the replace of writeRulesForFile (rules-file targets), applied to the   *)
(* text of an artifact.                                                    *)
(***************************************************************************)

\* The pieces a text of the rewriter model is made of: "../assets/",
\* "..\assets\", "x", "../" and "assets/".
AssetRefToken == <<".", ".", "/", "a", "s", "s", "e", "t", "s", "/">>
AssetRefTokenWin == <<".", ".", "\\", "a", "s", "s", "e", "t", "s", "\\">>
TextToken == <<"x">>
UpToken == <<".", ".", "/">>
AssetsDirToken == <<"a", "s", "s", "e", "t", "s", "/">>

RewriteTokens ==
    {AssetRefToken, AssetRefTokenWin, TextToken, UpToken, AssetsDirToken}

\* The most pieces of a source text.
MaxRewriteTokens == 2

\* The default install depth (commands/aicm, rules/aicm) and the deepest
\* install depth of the model.
MinInstallDepth == 2
MaxInstallDepth == 3

\* The most applications of the rewriter to one text.
MaxRewrites == 2

RewritePresets == {NoPreset, <<".", "/", "p">>}

IsSlash(c) == c = "/" \/ c = "\\"

\* The regular expression /\.\.[\\/]assets[\\/]/ matches at position i.
MatchesAssetRef(content, i) ==
    /\ i + 9 <= Len(content)
    /\ content[i] = "." /\ content[i + 1] = "."
    /\ IsSlash(content[i + 2])
    /\ SubSeq(content, i + 3, i + 8) = <<"a", "s", "s", "e", "t", "s">>
    /\ IsSlash(content[i + 9])

\* content.replace(/\.\.[\\/]assets[\\/]/g, targetPath): the matches are
\* taken from left to right and do not overlap.
RECURSIVE ReplaceAssetRefs(_, _, _)
ReplaceAssetRefs(content, i, targetPath) ==
    IF i > Len(content) THEN <<>>
    ELSE IF MatchesAssetRef(content, i)
         THEN targetPath \o ReplaceAssetRefs(content, i + 10, targetPath)
         ELSE <<content[i]>> \o ReplaceAssetRefs(content, i + 1, targetPath)

\* "../".repeat(n).
RECURSIVE RepeatUp(_)
RepeatUp(n) == IF n <= 0 THEN <<>> ELSE UpToken \o RepeatUp(n - 1)

\* install.ts rewriteAssetReferences.
rewriteAssetReferences(content, presetName, fileInstallDepth) ==
    LET upLevels == RepeatUp(fileInstallDepth)
        base == <<<<"a", "s", "s", "e", "t", "s">>, <<"a", "i", "c", "m">>>>
        assetBasePath ==
            IF presetName # NoPreset
            THEN JoinWith(PathJoin(base \o extractNamespaceFromPresetPath(presetName)), "/")
                 \o <<"/">>
            ELSE JoinWith(base, "/") \o <<"/">>
    IN  ReplaceAssetRefs(content, 1, upLevels \o assetBasePath)

\* install.ts writeRulesForFile: content.replace(/(\.\.[/\\])assets[/\\]/g,
\* "$1"), each match is replaced by its first three characters.
RECURSIVE writeRulesForFileContent(_, _)
writeRulesForFileContent(content, i) ==
    IF i > Len(content) THEN <<>>
    ELSE IF MatchesAssetRef(content, i)
         THEN SubSeq(content, i, i + 2) \o writeRulesForFileContent(content, i + 10)
         ELSE <<content[i]>> \o writeRulesForFileContent(content, i + 1)

RewriteStart ==
    /\ wContent \in {Flatten(tokens) : tokens \in SeqsUpTo(RewriteTokens, MaxRewriteTokens)}
    /\ wKind \in {"cursor", "rulesFile"}
    /\ wPreset \in RewritePresets
    /\ wDepth \in MinInstallDepth..MaxInstallDepth
    /\ wApplied = 0

\* The rewriter of the cursor target is applied to the text.
RewriteForCursor ==
    /\ wKind = "cursor"
    /\ wApplied < MaxRewrites
    /\ wContent' = rewriteAssetReferences(wContent, wPreset, wDepth)
    /\ wApplied' = wApplied + 1
    /\ UNCHANGED <<wKind, wPreset, wDepth>>
    /\ UNCHANGED wOthers

\* The rewriter of the rules-file targets is applied to the text.
RewriteForRulesFile ==
    /\ wKind = "rulesFile"
    /\ wApplied < MaxRewrites
    /\ wContent' = writeRulesForFileContent(wContent, 1)
    /\ wApplied' = wApplied + 1
    /\ UNCHANGED <<wKind, wPreset, wDepth>>
    /\ UNCHANGED wOthers

RewriteInit ==
    RewriteStart /\ PresetIdle /\ McpIdle /\ RulesIdle /\ CommandsIdle /\ HooksIdle
    /\ AssetsIdle
    /\ OverridesIdle
    /\ TreeIdle
    /\ FilterIdle
    /\ WorkspaceIdle
    /\ ValidationIdle
    /\ LoadIdle
    /\ ReinstallIdle
    /\ NamespaceIdle

RewriteNext == RewriteForCursor \/ RewriteForRulesFile

SpecRewrite == RewriteInit /\ [][RewriteNext]_vars

\* C10: the path rewriter is idempotent: applied, with the same depth and
\* namespace, to a text it has already rewritten, it returns the text
\* unchanged.
C10_RewriterIdempotent ==
    [][wApplied >= 1 => wContent' = wContent]_vars

(***************************************************************************)
(* Asset references: one rule or command with asset references in its      *)
(* text is installed for the cursor target, together with the assets of    *)
(* its source.                                                             *)
(*   src/commands/install.ts  writeCursorRules, writeCursorCommands,       *)
(*                            rewriteAssetReferences, writeAssetsToTargets *)
(*   src/utils/config.ts      loadAssetsFromDirectory                      *)
(***************************************************************************)

\* The names an asset can have, and the names of the artifacts: a flat one
\* and one in a subdirectory.
AssetNames == {<<"x">>, <<"y">>}
ArtifactNames == {<<"r">>, <<"d", "/", "r">>}
ArtifactPresets == {NoPreset, <<".", "/", "p">>, <<"@", "s", "/", "p">>}

\* The most tokens of a source text.
MaxTextTokens == 2

FenceMark == <<"~", "~", "~">>
Blank == <<" ">>
PlainText == <<"t">>

\* A token of a source text: plain text, or a relative path that names the
\* asset of that name, written in the running text or only inside a fenced
\* example block.
TextTokens ==
    {[asset |-> <<>>, fenced |-> FALSE]}
    \cup [asset : AssetNames, fenced : BOOLEAN]

CursorDir == <<<<".", "c", "u", "r", "s", "o", "r">>>>
RulesAicm == <<<<"r", "u", "l", "e", "s">>, <<"a", "i", "c", "m">>>>
CommandsAicm == <<<<"c", "o", "m", "m", "a", "n", "d", "s">>, <<"a", "i", "c", "m">>>>
AssetsAicm == <<<<"a", "s", "s", "e", "t", "s">>, <<"a", "i", "c", "m">>>>

ArtifactNameParts(artifact) ==
    SelectSeq(Split(artifact.name, "/"), LAMBDA x : x # <<>>)

\* The path by which a file <rulesDir>/<name>.mdc or <commandsDir>/<name>.md
\* reaches the file assets/<asset> next to that directory.
SourceReference(artifact, asset) ==
    RepeatUp(Len(ArtifactNameParts(artifact))) \o AssetsDirToken \o asset

\* The pieces of the source text of a token: the path of a reference is a
\* piece of its own.
TokenPieces(artifact, token) ==
    IF token.asset = <<>>
    THEN <<[text |-> PlainText \o Blank, asset |-> <<>>, fenced |-> FALSE]>>
    ELSE IF token.fenced
    THEN <<[text |-> FenceMark, asset |-> <<>>, fenced |-> FALSE],
           [text |-> SourceReference(artifact, token.asset),
            asset |-> token.asset, fenced |-> TRUE],
           [text |-> FenceMark \o Blank, asset |-> <<>>, fenced |-> FALSE]>>
    ELSE <<[text |-> SourceReference(artifact, token.asset),
            asset |-> token.asset, fenced |-> FALSE],
           [text |-> Blank, asset |-> <<>>, fenced |-> FALSE]>>

SourcePieces(artifact, tokens) ==
    Flatten([k \in 1..Len(tokens) |-> TokenPieces(artifact, tokens[k])])

SourceContent(artifact, tokens) ==
    LET pieces == SourcePieces(artifact, tokens)
    IN  Flatten([k \in 1..Len(pieces) |-> pieces[k].text])

\* install.ts writeCursorRules / writeCursorCommands: the path of the
\* installed file below the project directory.
ArtifactInstallPath(artifact) ==
    IF artifact.category = "rule"
    THEN IF artifact.presetName # NoPreset
         THEN PathJoin(CursorDir \o RulesAicm
                       \o extractNamespaceFromPresetPath(artifact.presetName)
                       \o ArtifactNameParts(artifact))
         ELSE PathJoin(CursorDir \o RulesAicm \o ArtifactNameParts(artifact))
    ELSE PathJoin(CursorDir \o CommandsAicm \o ArtifactNameParts(artifact))

\* install.ts writeCursorRules / writeCursorCommands: fileInstallDepth.
ArtifactInstallDepth(artifact) ==
    IF artifact.category = "rule"
    THEN 2 + (IF artifact.presetName # NoPreset
              THEN Len(extractNamespaceFromPresetPath(artifact.presetName))
              ELSE 0)
           + Len(ArtifactNameParts(artifact)) - 1
    ELSE 2 + Len(ArtifactNameParts(artifact)) - 1

\* The file written for the artifact.
ArtifactWritten(artifact, tokens) ==
    [path |-> ArtifactInstallPath(artifact),
     content |-> rewriteAssetReferences(SourceContent(artifact, tokens),
                                        artifact.presetName,
                                        ArtifactInstallDepth(artifact))]

\* install.ts writeAssetsToTargets, cursor target: the path of the installed
\* copy of an asset below the project directory.
AssetInstallPath(presetName, asset) ==
    IF presetName # NoPreset
    THEN PathJoin(CursorDir \o AssetsAicm
                  \o extractNamespaceFromPresetPath(presetName)
                  \o Split(asset, "/"))
    ELSE PathJoin(CursorDir \o AssetsAicm \o Split(asset, "/"))

writeAssetsToTargets(presetName, assets) ==
    {AssetInstallPath(presetName, asset) : asset \in assets}

AssetsStart ==
    /\ aArtifact \in [category : {"rule", "command"}, name : ArtifactNames,
                      presetName : ArtifactPresets]
    /\ aAssets \in SUBSET AssetNames
    /\ aTokens \in SeqsUpTo(TextTokens, MaxTextTokens)
    /\ aFile = <<>>
    /\ aAssetFiles = {}
    /\ aLast = "none"

\* installPackage for a package whose one artifact is a rule:
\* writeRulesToTargets writes the rule, then the assets.
AssetsInstallRule ==
    /\ aLast = "none"
    /\ aArtifact.category = "rule"
    /\ aFile' = ArtifactWritten(aArtifact, aTokens)
    /\ aAssetFiles' = writeAssetsToTargets(aArtifact.presetName, aAssets)
    /\ aLast' = "install"
    /\ UNCHANGED <<aArtifact, aAssets, aTokens>>
    /\ UNCHANGED aOthers

\* installPackage for a package whose one artifact is a command:
\* writeRulesToTargets writes the assets, writeCommandsToTargets the command.
AssetsInstallCommand ==
    /\ aLast = "none"
    /\ aArtifact.category = "command"
    /\ aFile' = ArtifactWritten(aArtifact, aTokens)
    /\ aAssetFiles' = writeAssetsToTargets(aArtifact.presetName, aAssets)
    /\ aLast' = "install"
    /\ UNCHANGED <<aArtifact, aAssets, aTokens>>
    /\ UNCHANGED aOthers

AssetsInit ==
    /\ AssetsStart /\ PresetIdle /\ McpIdle /\ RulesIdle /\ CommandsIdle
    /\ HooksIdle /\ RewriteIdle
    /\ OverridesIdle
    /\ TreeIdle
    /\ FilterIdle
    /\ WorkspaceIdle
    /\ ValidationIdle
    /\ LoadIdle
    /\ ReinstallIdle
    /\ NamespaceIdle

AssetsNext == AssetsInstallRule \/ AssetsInstallCommand

SpecAssets == AssetsInit /\ [][AssetsNext]_vars

\* The installed text is the source text, piece by piece: a piece of class
\* "verbatim" stands as written, a piece of class "any" may have been
\* replaced by any text, and a piece of class "resolves" by a path that,
\* resolved against the directory dir, names the file the piece gives.
RECURSIVE TextFollows(_, _, _, _, _)
TextFollows(out, pos, pieces, k, dir) ==
    IF k > Len(pieces) THEN pos = Len(out) + 1
    ELSE LET p == pieces[k]
             n == Len(p.text)
         IN  IF p.class = "verbatim"
             THEN /\ pos + n - 1 <= Len(out)
                  /\ SubSeq(out, pos, pos + n - 1) = p.text
                  /\ TextFollows(out, pos + n, pieces, k + 1, dir)
             ELSE \E e \in (pos - 1)..Len(out) :
                    /\ p.class = "resolves" =>
                         PathJoin(dir \o Split(SubSeq(out, pos, e), "/")) = p.file
                    /\ TextFollows(out, e + 1, pieces, k + 1, dir)

\* A reference the rewriter may change: it is written in the running text
\* and the file it names exists.
NamesExistingFile(piece) ==
    piece.asset # <<>> /\ ~piece.fenced /\ piece.asset \in aAssets

InstalledDir == SubSeq(aFile.path, 1, Len(aFile.path) - 1)

OnlyExistingPieces ==
    LET pieces == SourcePieces(aArtifact, aTokens)
    IN  [k \in 1..Len(pieces) |->
            [text |-> pieces[k].text, file |-> <<>>,
             class |-> IF NamesExistingFile(pieces[k]) THEN "any" ELSE "verbatim"]]

\* C11: the installed text differs from the source text only in relative
\* paths that, resolved against the source directory of the artifact, name
\* an existing file; a path that names no file, and a path that stands only
\* inside a fenced example block, is left as written.
C11_OnlyExistingFilesRewritten ==
    aLast = "install" =>
        TextFollows(aFile.content, 1, OnlyExistingPieces, 1, InstalledDir)

ResolvingPieces ==
    LET pieces == SourcePieces(aArtifact, aTokens)
    IN  [k \in 1..Len(pieces) |->
            [text |-> pieces[k].text,
             file |-> AssetInstallPath(aArtifact.presetName, pieces[k].asset),
             class |-> IF pieces[k].asset = <<>> THEN "verbatim"
                       ELSE IF NamesExistingFile(pieces[k]) THEN "resolves"
                       ELSE "any"]]

ReferencedAssets ==
    LET pieces == SourcePieces(aArtifact, aTokens)
    IN  {pieces[k].asset : k \in {j \in 1..Len(pieces) : NamesExistingFile(pieces[j])}}

\* C12: after an install for the cursor target, every asset reference of
\* the installed rule or command, resolved against the directory of the
\* installed file, names the installed copy of the asset that the reference
\* of the source named, whatever the namespace of the preset and however
\* many subdirectories the name of the artifact has.
C12_ReferencesReachInstalledAssets ==
    aLast = "install" =>
        /\ \A asset \in ReferencedAssets :
              AssetInstallPath(aArtifact.presetName, asset) \in aAssetFiles
        /\ TextFollows(aFile.content, 1, ResolvingPieces, 1, InstalledDir)

\* The same for the artifacts that lie directly in their source directory.
FlatReferencesReachInstalledAssets ==
    (aLast = "install" /\ Len(ArtifactNameParts(aArtifact)) = 1) =>
        TextFollows(aFile.content, 1, ResolvingPieces, 1, InstalledDir)

(***************************************************************************)
(* Overrides: loadConfig merges the local and the preset rules and         *)
(* commands and applies the overrides of the config; install writes the    *)
(* result.                                                                 *)
(*   src/utils/config.ts      loadAllRules, applyOverrides, loadConfig     *)
(*   src/commands/install.ts  installPackage                               *)
(***************************************************************************)

\* The names of the local rules and commands, the name the presets provide,
\* and the keys an overrides map can have: "z" is no name of any file.
OverrideLocalNames == {<<"a">>, <<"b">>}
OverridePresetNames == {<<"a">>}
OverrideKeys == {<<"a">>, <<"b">>, <<"z">>}
OverridePresetRefs == {<<".", "/", "p">>, <<".", "/", "q">>}

\* The most presets of the config.
MaxOverridePresets == 1

\* The value of an override: false, or the path of a local file.
OverrideFalse == [kind |-> "false", path |-> <<>>]
OverridePath == [kind |-> "path", path |-> <<"f">>]
OverrideValues == {OverrideFalse, OverridePath}

OverrideMaps == UNION {[keys -> OverrideValues] : keys \in SUBSET OverrideKeys}

OverridePresetEntries ==
    {e \in [ref : OverridePresetRefs, rules : SUBSET OverridePresetNames,
            commands : SUBSET OverridePresetNames,
            skills : {{}}] : e.rules \cup e.commands # {}}

OverridePresetLists ==
    {l \in SeqsUpTo(OverridePresetEntries, MaxOverridePresets) :
        \A i, j \in 1..Len(l) : i # j => l[i].ref # l[j].ref}

FileNames(files) == {files[i].name : i \in 1..Len(files)}

\* The content read from an override file.
OverrideContent(path) == <<"override", path>>

\* A loadConfig that does not look at the keys.
UnknownOverrideNamesUnchecked(overrides, ruleNames, commandNames) == {}

\* config.ts loadConfig: the keys of the overrides that are neither the name
\* of a rule nor the name of a command.
UnknownOverrideNames(overrides, ruleNames, commandNames) ==
    {name \in DOMAIN overrides : name \notin ruleNames /\ name \notin commandNames}

\* The entries of a file map in which a path replaces the value of its key
\* and a false leaves the key in the map.
OverriddenEntriesKeepFalse(fileMap, overrides) ==
    LET Replaced(file) ==
            IF file.name \in DOMAIN overrides /\ overrides[file.name].kind = "path"
            THEN [name |-> file.name,
                  content |-> OverrideContent(overrides[file.name].path),
                  source |-> "local", presetName |-> NoPreset]
            ELSE file
    IN  [i \in 1..Len(fileMap) |-> Replaced(fileMap[i])]

\* The entries of the file map after the overrides: a false deletes the key,
\* a path replaces the value of the key.
OverriddenEntries(fileMap, overrides) ==
    LET Replaced(file) ==
            IF file.name \in DOMAIN overrides /\ overrides[file.name].kind = "path"
            THEN [name |-> file.name,
                  content |-> OverrideContent(overrides[file.name].path),
                  source |-> "local", presetName |-> NoPreset]
            ELSE file
    IN  SelectSeq([i \in 1..Len(fileMap) |-> Replaced(fileMap[i])],
                  LAMBDA file : ~(file.name \in DOMAIN overrides
                                  /\ overrides[file.name].kind = "false"))

\* config.ts applyOverrides: it throws for a key that is no name of a file
\* and for a path that names no file; else the files go into a map keyed by
\* name, and the overrides are applied to the map.
applyOverrides(files, overrides, disk) ==
    IF \E name \in DOMAIN overrides : name \notin FileNames(files)
    THEN [ok |-> FALSE, error |-> "override-unknown", files |-> <<>>]
    ELSE IF \E name \in DOMAIN overrides :
               overrides[name].kind = "path" /\ overrides[name].path \notin disk
    THEN [ok |-> FALSE, error |-> "override-file-not-found", files |-> <<>>]
    ELSE [ok |-> TRUE, error |-> "none",
          files |-> OverriddenEntries(MapSetAll(<<>>, files), overrides)]

RestrictOverrides(overrides, names) ==
    [name \in DOMAIN overrides \cap names |-> overrides[name]]

\* config.ts loadConfig.
loadConfig(config, disk) ==
    LET rules == loadAllRulesRules(config.rules, config.presets)
        commands == loadAllRulesCommands(config)
        ruleNames == FileNames(rules)
        commandNames == FileNames(commands)
        ruleOverrides == RestrictOverrides(config.overrides, ruleNames)
        commandOverrides == RestrictOverrides(config.overrides, commandNames)
        rulesWithOverrides ==
            IF DOMAIN ruleOverrides # {}
            THEN applyOverrides(rules, ruleOverrides, disk)
            ELSE [ok |-> TRUE, error |-> "none", files |-> rules]
        commandsWithOverrides ==
            IF DOMAIN commandOverrides # {}
            THEN applyOverrides(commands, commandOverrides, disk)
            ELSE [ok |-> TRUE, error |-> "none", files |-> commands]
    IN  IF UnknownOverrideNames(config.overrides, ruleNames, commandNames) # {}
        THEN [status |-> "error", error |-> "override-unknown",
              rules |-> <<>>, commands |-> <<>>]
        ELSE IF ~rulesWithOverrides.ok
        THEN [status |-> "error", error |-> rulesWithOverrides.error,
              rules |-> <<>>, commands |-> <<>>]
        ELSE IF ~commandsWithOverrides.ok
        THEN [status |-> "error", error |-> commandsWithOverrides.error,
              rules |-> <<>>, commands |-> <<>>]
        ELSE [status |-> "ok", error |-> "none",
              rules |-> rulesWithOverrides.files,
              commands |-> commandsWithOverrides.files]

OverridesStart ==
    /\ oConfig \in [name : {PackageNames[1]},
                    rules : SUBSET OverrideLocalNames,
                    commands : SUBSET OverrideLocalNames,
                    skills : {{}},
                    presets : OverridePresetLists,
                    overrides : OverrideMaps]
    /\ oDisk \in SUBSET {OverridePath.path}
    /\ oResolved = <<>>
    /\ oFiles = [rules |-> {}, commands |-> {}]
    /\ oLast = "none"

\* install: loadConfig, and if it does not throw, installPackage writes the
\* rules (if there are any) and the deduplicated commands.
OverridesInstall ==
    /\ oLast = "none"
    /\ LET resolved == loadConfig(oConfig, oDisk)
       IN  /\ oResolved' = resolved
           /\ oFiles' =
                IF resolved.status = "ok"
                THEN [rules |-> IF Len(resolved.rules) > 0
                                THEN writeCursorRules(resolved.rules)
                                ELSE oFiles.rules,
                      commands |-> writeCursorCommands(
                                      dedupeCommandsForInstall(resolved.commands))]
                ELSE oFiles
    /\ oLast' = "install"
    /\ UNCHANGED <<oConfig, oDisk>>
    /\ UNCHANGED oOthers

OverridesInit ==
    /\ OverridesStart /\ PresetIdle /\ McpIdle /\ RulesIdle /\ CommandsIdle
    /\ HooksIdle /\ RewriteIdle /\ AssetsIdle
    /\ TreeIdle
    /\ FilterIdle
    /\ WorkspaceIdle
    /\ ValidationIdle
    /\ LoadIdle
    /\ ReinstallIdle
    /\ NamespaceIdle

OverridesNext == OverridesInstall

SpecOverrides == OverridesInit /\ [][OverridesNext]_vars

MergedRuleNames == FileNames(loadAllRulesRules(oConfig.rules, oConfig.presets))
MergedCommandNames == FileNames(loadAllRulesCommands(oConfig))

\* C13: if the overrides have a key that is the name of no merged rule and
\* of no merged command, loading the configuration fails: there is no
\* resolved config and nothing is installed.
C13_UnknownOverrideFails ==
    (oLast = "install"
     /\ \E name \in DOMAIN oConfig.overrides :
            name \notin MergedRuleNames \cup MergedCommandNames)
    => (oResolved.status = "error"
        /\ oFiles = [rules |-> {}, commands |-> {}])

C13_Witness ==
    /\ oLast = "install"
    /\ oResolved.status = "error"
    /\ oResolved.error = "override-unknown"
    /\ <<"z">> \in DOMAIN oConfig.overrides
    /\ <<"a">> \in DOMAIN oConfig.overrides
    /\ <<"a">> \in MergedRuleNames

DisabledNames ==
    {name \in DOMAIN oConfig.overrides :
        /\ oConfig.overrides[name].kind = "false"
        /\ name \in MergedRuleNames \cup MergedCommandNames}

\* The installed files of the name: the name is the end of their path.
InstalledFilesOfName(files, name) ==
    {file \in files : SubSeq(file.path, Len(file.path) - Len(Split(name, "/")) + 1,
                             Len(file.path)) = Split(name, "/")}

\* C14: an override false for the name of a merged rule or command removes
\* every merged entry of that name: the resolved config has no rule and no
\* command of the name, and no file is installed for it.
C14_FalseOverrideRemovesAll ==
    oLast = "install" =>
        \A name \in DisabledNames :
            /\ oResolved.status = "ok" =>
                  name \notin FileNames(oResolved.rules) \cup FileNames(oResolved.commands)
            /\ InstalledFilesOfName(oFiles.rules, name) = {}
            /\ InstalledFilesOfName(oFiles.commands, name) = {}

C14_Witness ==
    /\ oLast = "install"
    /\ oResolved.status = "ok"
    /\ <<"a">> \in DisabledNames
    /\ <<"a">> \in oConfig.rules
    /\ \E i \in 1..Len(oConfig.presets) : <<"a">> \in oConfig.presets[i].rules
    /\ <<"a">> \in MergedCommandNames
    /\ \E file \in oFiles.rules : file.path = <<<<"b">>>>

NamesUnique(files) ==
    \A i, j \in 1..Len(files) : i # j => files[i].name # files[j].name

\* C15: in every resolved config that load, merge and override produce, no
\* two rules have the same name and no two commands have the same name.
C15_NamesUniqueInResolvedConfig ==
    (oLast = "install" /\ oResolved.status = "ok") =>
        /\ NamesUnique(oResolved.rules)
        /\ NamesUnique(oResolved.commands)

\* After applyOverrides has run on a category, the names of that category
\* are unique: its file map has one entry for a name.
NamesUniqueWhereOverridden ==
    (oLast = "install" /\ oResolved.status = "ok") =>
        /\ DOMAIN oConfig.overrides \cap MergedRuleNames # {}
              => NamesUnique(oResolved.rules)
        /\ DOMAIN oConfig.overrides \cap MergedCommandNames # {}
              => NamesUnique(oResolved.commands)

(***************************************************************************)
(* Install, dry run and clean on the destination tree: the files under     *)
(* .cursor of every location, for one package and for a workspace.         *)
(*   src/commands/install.ts             install, installPackage,          *)
(*                                       writeMcpServersToFile             *)
(*   src/commands/install-workspaces.ts  installWorkspaces                 *)
(*   src/utils/hooks.ts                  dedupeHookFiles, writeHooksToCursor *)
(*   src/commands/clean.ts               clean, cleanPackage               *)
(***************************************************************************)

\* The presets of the model: "./p" and "../p".  Each provides the command
\* d/r and a hooks.json that binds its script hooks/a to "stop"; both have
\* the namespace p.
TreePresetRefs == {<<".", "/", "p">>, <<".", ".", "/", "p">>}

\* The most presets of a package, the most commands run in a row, and the
\* size of the input: rules, presets, servers and hand-authored entries
\* together.
MaxTreePresets == 2
MaxTreeCommands == 2
MaxTreeInputs == 3

TreePresetHooks == [t \in HookTypes |-> IF t = "stop" THEN <<OwnScript>> ELSE <<>>]

TreePresetEntry(ref) ==
    [ref |-> ref, rules |-> {}, commands |-> CommandNames, skills |-> {},
     exists |-> TRUE, hooks |-> TreePresetHooks]

TreePresetLists ==
    {[i \in 1..Len(l) |-> TreePresetEntry(l[i])] :
        l \in DistinctSeqsUpTo(TreePresetRefs, MaxTreePresets)}

\* The mcpServers of a config, in the order of its keys.
TreeMcpServers ==
    {[i \in 1..Len(l) |-> [name |-> l[i], def |-> "dL"]] :
        l \in DistinctSeqsUpTo(ServerNames, Cardinality(ServerNames))}

\* .cursor/mcp.json: whether it exists and its mcpServers in the order of
\* the keys; an entry has a definition and may carry the marker aicm: true.
NoMcpJson == [exists |-> FALSE, servers |-> <<>>]

UserMcpJsons ==
    {NoMcpJson} \cup
    {[exists |-> TRUE,
      servers |-> [i \in 1..Len(l) |-> [name |-> l[i], def |-> "dU", aicm |-> FALSE]]] :
        l \in DistinctSeqsUpTo(ServerNames, Cardinality(ServerNames)) \ {<<>>}}

\* .cursor/hooks.json of the user: none, or one hand-authored entry.
UserHooksJsons ==
    {NoJson} \cup
    {[exists |-> TRUE,
      hooks |-> [t \in HookTypes |-> IF t = "stop" THEN <<c>> ELSE <<>>]] :
        c \in UserCommands}

TreeConfigs(name) ==
    [name : {name}, rules : SUBSET {<<"a">>}, commands : {{}}, skills : {{}},
     local : {[exists |-> FALSE, hooks |-> NoHooks]},
     presets : TreePresetLists, mcpServers : TreeMcpServers]

ConfigSize(config) ==
    Cardinality(config.rules) + Len(config.presets) + Len(config.mcpServers)

EmptyTree ==
    [rules |-> {}, commands |-> {}, mcp |-> NoMcpJson, hooksJson |-> NoJson,
     hookFiles |-> {}]

UserTrees ==
    {[EmptyTree EXCEPT !.mcp = mcp, !.hooksJson = json] :
        mcp \in UserMcpJsons, json \in UserHooksJsons}

UserTreeSize(tree) == Len(tree.mcp.servers) + countHooks(tree.hooksJson.hooks)

\* install.ts writeMcpServersToFile: the entries of the file without the
\* marker, then the servers of the config that are not false, marked; a
\* server of the config takes the place of a kept entry of its name.
writeMcpJson(mcpServers, file) ==
    LET userMcpServers == SelectSeq(file.servers, LAMBDA e : ~e.aicm)
        kept == SelectSeq(mcpServers, LAMBDA s : s.def # "false")
        aicmMcpServers ==
            [i \in 1..Len(kept) |->
                [name |-> kept[i].name, def |-> kept[i].def, aicm |-> TRUE]]
    IN  [exists |-> TRUE, servers |-> MapSetAll(userMcpServers, aicmMcpServers)]

\* clean.ts cleanMcpServers: the marked entries are dropped; the file is
\* removed when nothing is left, and not touched when no entry is marked.
cleanMcpJson(file) ==
    LET newMcpServers == SelectSeq(file.servers, LAMBDA e : ~e.aicm)
    IN  IF ~file.exists \/ newMcpServers = file.servers THEN file
        ELSE IF newMcpServers = <<>> THEN NoMcpJson
        ELSE [exists |-> TRUE, servers |-> newMcpServers]

\* hooks.ts dedupeHookFiles, its warnings: one for every file whose name is
\* in the map with another content.
HookSourceInfo(hookFile) ==
    IF hookFile.presetName # NoPreset THEN hookFile.presetName
    ELSE <<hookFile.source>>

RECURSIVE HookFileWarningsFrom(_, _, _, _)
HookFileWarningsFrom(hookFiles, i, fileMap, loc) ==
    IF i > Len(hookFiles) THEN <<>>
    ELSE LET hookFile == hookFiles[i]
             seen == {k \in 1..Len(fileMap) : fileMap[k].name = hookFile.name}
             existing == fileMap[CHOOSE k \in seen : TRUE]
         IN  (IF seen # {} /\ existing.content # hookFile.content
              THEN <<[at |-> loc, kind |-> "hookFile", name |-> hookFile.name,
                      presets |-> {HookSourceInfo(existing), HookSourceInfo(hookFile)},
                      chosen |-> HookSourceInfo(hookFile)]>>
              ELSE <<>>)
             \o HookFileWarningsFrom(hookFiles, i + 1, MapSet(fileMap, hookFile), loc)

dedupeHookFilesWarnings(hookFiles, loc) == HookFileWarningsFrom(hookFiles, 1, <<>>, loc)

\* install.ts installPackage, the write phase: rules (if there are any),
\* commands, mcp.json (if the config has servers), hooks (if there is a
\* hook or a hook file).
PackageFilesWritten(pkg, tree) ==
    LET rules == loadAllRulesRules(pkg.rules, pkg.presets)
        commandsToInstall == dedupeCommandsForInstall(loadAllRulesCommands(pkg))
        resolved == loadAllRulesHooks(pkg)
    IN  [rules |-> IF Len(rules) > 0 THEN writeCursorRules(rules) ELSE tree.rules,
         commands |-> writeCursorCommands(commandsToInstall),
         mcp |-> IF Len(pkg.mcpServers) > 0
                 THEN writeMcpJson(pkg.mcpServers, tree.mcp)
                 ELSE tree.mcp,
         hooksJson |-> IF PackageWritesHooks(pkg)
                       THEN writeHooksToCursorJson(resolved.hooks, tree.hooksJson)
                       ELSE tree.hooksJson,
         hookFiles |-> IF PackageWritesHooks(pkg)
                       THEN writeHooksToCursorFiles(resolved.hookFiles)
                       ELSE tree.hookFiles]

\* An installPackage that writes in a dry run too.
installPackageAlwaysWrites(pkg, tree, dryRun) == PackageFilesWritten(pkg, tree)

\* install.ts installPackage, the tree it leaves.
installPackageTree(pkg, tree, dryRun) ==
    IF dryRun THEN tree ELSE PackageFilesWritten(pkg, tree)

\* install.ts installPackage, its warnings in the order they are emitted:
\* the collisions of commands and skills, then, inside the write phase, the
\* hook files of one name with different content.
installPackageLog(pkg, dryRun) ==
    SetToSeq(PackageWarnings(pkg))
    \o (IF ~dryRun /\ PackageWritesHooks(pkg)
        THEN dedupeHookFilesWarnings(loadAllRulesHooks(pkg).hookFiles, pkg.name)
        ELSE <<>>)

\* install-workspaces.ts mergeWorkspaceMcpServers: the servers of the
\* packages in package order, the last definition of a key wins; a conflict
\* for every key with more than one definition.
AllMcpServers(packages) ==
    Flatten([i \in 1..Len(packages) |->
                [k \in 1..Len(packages[i].mcpServers) |->
                    [name |-> packages[i].mcpServers[k].name,
                     def |-> packages[i].mcpServers[k].def,
                     package |-> packages[i].name]]])

mergeWorkspaceMcpServers(packages) ==
    LET all == SelectSeq(AllMcpServers(packages), LAMBDA s : s.def # "false")
        merged == MapSetAll(<<>>, all)
        DefsOf(key) == {all[i].def : i \in {k \in 1..Len(all) : all[k].name = key}}
    IN  [merged |-> [i \in 1..Len(merged) |->
                        [name |-> merged[i].name, def |-> merged[i].def]],
         conflicts |->
            SelectSeq([i \in 1..Len(merged) |->
                          [at |-> RootLocation, kind |-> "mcp", name |-> merged[i].name,
                           presets |-> {all[k].package :
                                           k \in {j \in 1..Len(all) :
                                                    all[j].name = merged[i].name}},
                           chosen |-> merged[i].package]],
                      LAMBDA c : Cardinality(DefsOf(c.name)) > 1)]

TreePackageAt(packages, loc) ==
    packages[CHOOSE i \in 1..Len(packages) : packages[i].name = loc]

\* install-workspaces.ts installWorkspaces, the write phase at the root:
\* the merged commands, mcp.json and hooks.
RootFilesWritten(packages, tree) ==
    LET workspaceCommands == mergeWorkspaceCommands(packages)
        rootMcp == mergeWorkspaceMcpServers(packages).merged
        root == mergeWorkspaceHooks(packages)
        writesHooks == countHooks(root.merged) > 0 \/ Len(root.hookFiles) > 0
    IN  [rules |-> tree.rules,
         commands |-> IF Len(workspaceCommands) > 0
                      THEN writeCursorCommands(dedupeCommandsForInstall(workspaceCommands))
                      ELSE tree.commands,
         mcp |-> IF Len(rootMcp) > 0 THEN writeMcpJson(rootMcp, tree.mcp) ELSE tree.mcp,
         hooksJson |-> IF writesHooks
                       THEN writeHooksToCursorJson(root.merged, tree.hooksJson)
                       ELSE tree.hooksJson,
         hookFiles |-> IF writesHooks
                       THEN writeHooksToCursorFiles(root.hookFiles)
                       ELSE tree.hookFiles]

\* install.ts install: installPackage for a package that is no workspace,
\* else installWorkspaces: installPackage in every package, then the root.
installTree(packages, trees, dryRun) ==
    [loc \in Locations |->
        IF \E i \in 1..Len(packages) : packages[i].name = loc
        THEN installPackageTree(TreePackageAt(packages, loc), trees[loc], dryRun)
        ELSE IF Len(packages) > 1 /\ ~dryRun
        THEN RootFilesWritten(packages, trees[loc])
        ELSE trees[loc]]

\* install.ts install, the warnings in the order they are emitted: those of
\* every package in turn, then in a workspace those of the root: command
\* collisions, mcp conflicts, and the hook files deduped by
\* mergeWorkspaceHooks.  (writeHooksToCursor at the root dedupes the deduped
\* files again, which warns of nothing.)
installLog(packages, dryRun) ==
    Flatten([i \in 1..Len(packages) |-> installPackageLog(packages[i], dryRun)])
    \o (IF Len(packages) > 1
        THEN SetToSeq(WarningsAt(RootLocation, "command",
                                 warnPresetCommandCollisions(mergeWorkspaceCommands(packages))))
             \o mergeWorkspaceMcpServers(packages).conflicts
             \o dedupeHookFilesWarnings(
                    Flatten([i \in 1..Len(packages) |->
                                loadAllRulesHooks(packages[i]).hookFiles]),
                    RootLocation)
        ELSE <<>>)

\* clean.ts cleanPackage: the managed directories are removed, mcp.json and
\* hooks.json are cleaned.
cleanPackageTree(tree) ==
    [rules |-> {}, commands |-> {}, mcp |-> cleanMcpJson(tree.mcp),
     hooksJson |-> cleanHooks(tree.hooksJson), hookFiles |-> {}]

\* clean.ts clean: cleanPackage, or cleanWorkspaces in every package and at
\* the root.
cleanTree(packages, trees) ==
    [loc \in Locations |->
        IF Len(packages) > 1 \/ packages[1].name = loc
        THEN cleanPackageTree(trees[loc])
        ELSE trees[loc]]

\* Either one package with hand-authored files in its .cursor, or a
\* workspace of two packages with hand-authored files at the root.
TreeStart ==
    /\ \/ \E config \in TreeConfigs(PackageNames[1]), user \in UserTrees :
             /\ ConfigSize(config) + UserTreeSize(user) <= MaxTreeInputs
             /\ tPackages = <<config>>
             /\ tInitial = [loc \in Locations |->
                              IF loc = PackageNames[1] THEN user ELSE EmptyTree]
       \/ \E first \in TreeConfigs(PackageNames[1]),
             second \in TreeConfigs(PackageNames[2]), user \in UserTrees :
             /\ ConfigSize(first) + ConfigSize(second) + UserTreeSize(user)
                   <= MaxTreeInputs
             /\ tPackages = <<first, second>>
             /\ tInitial = [loc \in Locations |->
                              IF loc = RootLocation THEN user ELSE EmptyTree]
    /\ tTree = tInitial
    /\ tBefore = tInitial
    /\ tLog = <<>>
    /\ tHistory = <<>>

\* aicm install.
TreeInstall ==
    /\ Len(tHistory) < MaxTreeCommands
    /\ "idle" \notin Range(tHistory)
    /\ tTree' = installTree(tPackages, tTree, FALSE)
    /\ tLog' = installLog(tPackages, FALSE)
    /\ tBefore' = tTree
    /\ tHistory' = Append(tHistory, "install")
    /\ UNCHANGED <<tPackages, tInitial>>
    /\ UNCHANGED tOthers

\* aicm install --dry-run.
TreeDryRun ==
    /\ Len(tHistory) < MaxTreeCommands
    /\ "idle" \notin Range(tHistory)
    /\ tTree' = installTree(tPackages, tTree, TRUE)
    /\ tLog' = installLog(tPackages, TRUE)
    /\ tBefore' = tTree
    /\ tHistory' = Append(tHistory, "dry")
    /\ UNCHANGED <<tPackages, tInitial>>
    /\ UNCHANGED tOthers

\* aicm clean.
TreeClean ==
    /\ Len(tHistory) < MaxTreeCommands
    /\ "idle" \notin Range(tHistory)
    /\ tTree' = cleanTree(tPackages, tTree)
    /\ tLog' = <<>>
    /\ tBefore' = tTree
    /\ tHistory' = Append(tHistory, "clean")
    /\ UNCHANGED <<tPackages, tInitial>>
    /\ UNCHANGED tOthers

TreeInit ==
    /\ TreeStart /\ PresetIdle /\ McpIdle /\ RulesIdle /\ CommandsIdle
    /\ HooksIdle /\ RewriteIdle /\ AssetsIdle /\ OverridesIdle
    /\ FilterIdle
    /\ WorkspaceIdle
    /\ ValidationIdle
    /\ LoadIdle
    /\ ReinstallIdle
    /\ NamespaceIdle

TreeNext == TreeInstall \/ TreeDryRun \/ TreeClean

SpecTree == TreeInit /\ [][TreeNext]_vars

LastCommand == IF tHistory = <<>> THEN "none" ELSE tHistory[Len(tHistory)]
CommandBefore ==
    IF Len(tHistory) < 2 THEN "none" ELSE tHistory[Len(tHistory) - 1]

\* C16: an install that follows an install, with the config and the
\* sources unchanged, leaves every file of the destination tree as the
\* first left it, byte for byte (for mcp.json: the same entries in the same
\* order), also when hooks.json and mcp.json had hand-authored entries.
C16_InstallTwiceSameTree ==
    (LastCommand = "install" /\ CommandBefore = "install") => tTree = tBefore

\* A tree without the order of the keys of mcp.json.
EntriesOf(tree) == [tree EXCEPT !.mcp.servers = Range(tree.mcp.servers)]

\* The second install leaves every file with the entries the first wrote.
InstallTwiceSameEntries ==
    (LastCommand = "install" /\ CommandBefore = "install") =>
        \A loc \in Locations : EntriesOf(tTree[loc]) = EntriesOf(tBefore[loc])

\* C17: a dry run creates, modifies and deletes nothing in the destination
\* tree: after install --dry-run every location, the packages and the root
\* of a workspace alike, has the files it had before.
C17_DryRunWritesNothing ==
    LastCommand = "dry" => tTree = tBefore

\* A dry run in a workspace where an install would have written in a
\* package and at the root.
C17_Witness ==
    /\ LastCommand = "dry"
    /\ Len(tPackages) > 1
    /\ installTree(tPackages, tBefore, FALSE)[PackageNames[1]] # tBefore[PackageNames[1]]
    /\ installTree(tPackages, tBefore, FALSE)[RootLocation] # tBefore[RootLocation]
    /\ tBefore[RootLocation] # EmptyTree

\* C18: a dry run emits the warnings and errors of a real run on the same
\* inputs, the same ones in the same order.
C18_DryRunSameDiagnostics ==
    LastCommand = "dry" => tLog = installLog(tPackages, FALSE)

\* The same for the packages in which no two hook files have one name.
DryRunSameDiagnosticsWithoutHookCollision ==
    (LastCommand = "dry"
     /\ \A i \in 1..Len(tPackages) :
           dedupeHookFilesWarnings(loadAllRulesHooks(tPackages[i]).hookFiles,
                                   tPackages[i].name) = <<>>)
    => tLog = installLog(tPackages, FALSE)

\* What clean has to remove: managed files, marked servers, entries of
\* hooks.json that point into the managed directory.
ManagedLeft(tree) ==
    \/ tree.rules # {} \/ tree.commands # {} \/ tree.hookFiles # {}
    \/ \E i \in 1..Len(tree.mcp.servers) : tree.mcp.servers[i].aicm
    \/ \E t \in HookTypes : \E i \in 1..Len(tree.hooksJson.hooks[t]) :
          StartsWith(tree.hooksJson.hooks[t][i], ManagedPrefix)

\* C19: after an install followed by a clean nothing managed is left in the
\* destination tree, and the rest of the tree is as it was before the
\* install.
C19_CleanUndoesInstall ==
    tHistory = <<"install", "clean">> =>
        /\ \A loc \in Locations : ~ManagedLeft(tTree[loc])
        /\ tTree = tInitial

\* After an install followed by a clean nothing managed is left.
CleanRemovesManaged ==
    tHistory = <<"install", "clean">> =>
        \A loc \in Locations : ~ManagedLeft(tTree[loc])

\* The hand-authored files clean and install leave alone: no entry of
\* hooks.json has "hooks/aicm/" in its command, and no server of mcp.json
\* has the name of a server of a config.
UserFilesApart ==
    /\ \A loc \in Locations : \A t \in HookTypes :
          \A i \in 1..Len(tInitial[loc].hooksJson.hooks[t]) :
              IsUserCommand(tInitial[loc].hooksJson.hooks[t][i])
    /\ \A loc \in Locations : \A i \in 1..Len(tInitial[loc].mcp.servers) :
          \A k \in 1..Len(tPackages) : \A j \in 1..Len(tPackages[k].mcpServers) :
              tPackages[k].mcpServers[j].name # tInitial[loc].mcp.servers[i].name

\* For such files an install followed by a clean leaves the tree as it was.
CleanUndoesInstallWhenApart ==
    (tHistory = <<"install", "clean">> /\ UserFilesApart) => tTree = tInitial

(***************************************************************************)
(* Workspace packages: which of the discovered packages installWorkspaces  *)
(* installs.                                                               *)
(*   src/utils/workspace-discovery.ts    discoverPackagesWithAicm          *)
(*   src/commands/install-workspaces.ts  installWorkspaces                 *)
(***************************************************************************)

\* The relative paths of the packages of the workspace, in sort order: the
\* repository root is ".".
RootPackagePath == "."
PackagePaths == <<RootPackagePath, "a">>

\* The most presets of a package.
MaxFilterPresets == 1

FilterPresetLists ==
    {[i \in 1..Len(l) |->
         [ref |-> l[i], rules |-> {<<"a">>}, commands |-> {}, skills |-> {}]] :
        l \in DistinctSeqsUpTo({<<".", "/", "p">>}, MaxFilterPresets)}

FilterConfigs(relativePath) ==
    [name : {relativePath}, skipInstall : BOOLEAN, rules : SUBSET {<<"a">>},
     commands : SUBSET CommandNames, skills : SUBSET SkillNames,
     presets : FilterPresetLists]

\* workspace-discovery.ts discoverPackagesWithAicm: the directories with an
\* aicm config, sorted by relative path.
DiscoveredPackages ==
    {SelectSeq(all, LAMBDA pkg : pkg.name \in present) :
        all \in {l \in [1..Len(PackagePaths) -> UNION {FilterConfigs(p) : p \in Range(PackagePaths)}] :
                   \A i \in 1..Len(PackagePaths) : l[i].name = PackagePaths[i]},
        present \in SUBSET Range(PackagePaths)}

\* install-workspaces.ts installWorkspaces, the filter of the discovered
\* packages: not one with skipInstall; the root only if its resolved config
\* has rules or commands or its config declares presets.
KeepsPackage(pkg) ==
    IF pkg.skipInstall THEN FALSE
    ELSE IF pkg.name # RootPackagePath THEN TRUE
    ELSE LET hasRules == Len(loadAllRulesRules(pkg.rules, pkg.presets)) > 0
             hasCommands == Len(loadAllRulesCommands(pkg)) > 0
             hasPresets == Len(pkg.presets) > 0
         IN  hasRules \/ hasCommands \/ hasPresets

FilterStart ==
    /\ kPackages \in DiscoveredPackages
    /\ kInstalled = {}
    /\ kResult = "none"
    /\ kLast = "none"

\* install-workspaces.ts installWorkspaces: the kept packages are installed
\* in turn; without a kept package the run fails.
FilterInstallWorkspaces ==
    /\ kLast = "none"
    /\ LET packages == SelectSeq(kPackages, KeepsPackage)
       IN  /\ kInstalled' = {packages[i].name : i \in 1..Len(packages)}
           /\ kResult' = IF Len(packages) = 0 THEN "error" ELSE "ok"
    /\ kLast' = "workspaces"
    /\ UNCHANGED kPackages
    /\ UNCHANGED kOthers

FilterInit ==
    /\ FilterStart /\ PresetIdle /\ McpIdle /\ RulesIdle /\ CommandsIdle
    /\ HooksIdle /\ RewriteIdle /\ AssetsIdle /\ OverridesIdle /\ TreeIdle
    /\ WorkspaceIdle
    /\ ValidationIdle
    /\ LoadIdle
    /\ ReinstallIdle
    /\ NamespaceIdle

FilterNext == FilterInstallWorkspaces

SpecFilter == FilterInit /\ [][FilterNext]_vars

\* C20: in workspace mode a discovered package is installed if and only if
\* it is not flagged skipInstall and, when it is the repository root, it
\* has local rules, commands or skills of its own or declares presets.
C20_InstalledIffEligible ==
    kLast = "workspaces" =>
        \A i \in 1..Len(kPackages) :
            LET pkg == kPackages[i]
            IN  pkg.name \in kInstalled <=>
                    /\ ~pkg.skipInstall
                    /\ pkg.name = RootPackagePath =>
                          \/ pkg.rules # {} \/ pkg.commands # {}
                          \/ pkg.skills # {} \/ pkg.presets # <<>>

\* The same without the skills: the root counts for its rules, commands
\* and presets.
InstalledIffEligibleWithoutSkills ==
    kLast = "workspaces" =>
        \A i \in 1..Len(kPackages) :
            LET pkg == kPackages[i]
            IN  pkg.name \in kInstalled <=>
                    /\ ~pkg.skipInstall
                    /\ pkg.name = RootPackagePath =>
                          \/ pkg.rules # {} \/ pkg.commands # {}
                          \/ pkg.presets # <<>>


(***************************************************************************)
(* A workspace run: the packages found by discoverPackagesWithAicm         *)
(* (workspace-discovery.ts), installPackage in each of them, and the       *)
(* commands and MCP servers merged for the workspace root                  *)
(* (install-workspaces.ts).                                                *)
(***************************************************************************)

\* The relative paths of the packages, as discoverPackagesWithAicm sorts
\* them, and the segments of each.
WorkspacePaths == <<"a", "b/c">>

PackageDir(relativePath) ==
    IF relativePath = "a" THEN << <<"a">> >> ELSE << <<"b">>, <<"c">> >>

\* The preset references of a workspace package: "../p", "../../p", "@s/p".
WorkspacePresetRefs ==
    {<<".", ".", "/", "p">>, <<".", ".", "/", ".", ".", "/", "p">>,
     <<"@", "s", "/", "p">>}

\* The most presets a workspace package declares.
MaxWorkspacePresets == 1

\* The one command name of the workspace model, local or of a preset.
WorkspaceCommandNames == {<<"r">>}

\* A value of an mcpServers key as the config file spells it: false, or an
\* object whose keys come in the order written.  A value stands for its
\* JSON.stringify text, which keeps the order of the keys.
ServerValues == {"false", "{command,args}", "{args,command}", "{url}"}

\* The object a value denotes: its keys and their values.
ServerObject(value) ==
    IF value \in {"{command,args}", "{args,command}"}
    THEN {<<"command", "x">>, <<"args", "y">>}
    ELSE IF value = "{url}" THEN {<<"url", "u">>}
    ELSE {}

WorkspaceServerName == "s1"

\* config.ts resolvePresetPath: a path is resolved against the package
\* directory, a package name in node_modules; the directory of the preset,
\* relative to the workspace root.
resolvePresetPath(presetPath, cwd) ==
    IF StartsWithChar(presetPath, "@")
    THEN << <<"n", "o", "d", "e", "_", "m", "o", "d", "u", "l", "e", "s">> >>
         \o Split(presetPath, "/")
    ELSE PathJoin(cwd \o Split(presetPath, "/"))

\* config.ts loadCommandsFromDirectory with the file a command was read
\* from: sourcePath is the file, content what it holds.
CommandSourcePath(rootDir, name) ==
    rootDir \o << <<"c", "o", "m", "m", "a", "n", "d", "s">> >> \o Split(name, "/")

CommandsOfDirectory(rootDir, names, source, presetName) ==
    [i \in 1..Cardinality(names) |->
        [name |-> SetToSeq(names)[i], source |-> source,
         presetName |-> presetName,
         sourcePath |-> CommandSourcePath(rootDir, SetToSeq(names)[i]),
         content |-> CommandSourcePath(rootDir, SetToSeq(names)[i])]]

\* config.ts loadAllRules, the commands of a package's resolved config: the
\* local commands, then each preset's; every preset holds the command "r".
ResolvedCommands(pkg) ==
    CommandsOfDirectory(PackageDir(pkg.name), pkg.commands, "local", NoPreset)
    \o Flatten([i \in 1..Len(pkg.presets) |->
                   CommandsOfDirectory(
                       resolvePresetPath(pkg.presets[i], PackageDir(pkg.name)),
                       WorkspaceCommandNames, "preset", pkg.presets[i])])

\* install-workspaces.ts mergeWorkspaceCommands over the resolved configs.
MergedWorkspaceCommands(packages) ==
    MergeCommandsFrom(
        Flatten([i \in 1..Len(packages) |-> ResolvedCommands(packages[i])]),
        1, {})

\* install.ts installPackage in a workspace package: the collision
\* warnings, then the writes; writeMcpServersToFile reads the package's
\* .cursor/mcp.json and throws when it is no JSON, after the rules and
\* commands were written; the error is returned as success: false.
installPackageAt(pkg, dryRun) ==
    IF dryRun THEN [path |-> pkg.name, success |-> TRUE, wrote |-> {}]
    ELSE IF Len(pkg.mcpServers) > 0 /\ pkg.mcpJson = "malformed"
    THEN [path |-> pkg.name, success |-> FALSE, wrote |-> {"rules", "commands"}]
    ELSE [path |-> pkg.name, success |-> TRUE,
          wrote |-> {"rules", "commands"} \cup
                    (IF Len(pkg.mcpServers) > 0 THEN {"mcp"} ELSE {})]

\* install-workspaces.ts installWorkspacesPackages: installPackage in every
\* package in turn, the results collected.
installWorkspacesPackages(packages, dryRun) ==
    [i \in 1..Len(packages) |-> installPackageAt(packages[i], dryRun)]

\* install-workspaces.ts installWorkspaces, the root's files: the merged
\* commands and the merged servers, written unless the run is a dry run.
WorkspaceRootWritten(packages, root) ==
    LET workspaceCommands == MergedWorkspaceCommands(packages)
        rootMcp == mergeWorkspaceMcpServers(packages).merged
    IN  [commands |-> IF Len(workspaceCommands) > 0
                      THEN writeCursorCommands(
                               dedupeCommandsForInstall(workspaceCommands))
                      ELSE root.commands,
         mcp |-> IF Len(rootMcp) > 0 THEN writeMcpJson(rootMcp, root.mcp)
                 ELSE root.mcp,
         written |-> (IF Len(workspaceCommands) > 0 THEN {"commands"} ELSE {})
                     \cup (IF Len(rootMcp) > 0 THEN {"mcp"} ELSE {})]

WorkspaceConfigs(name) ==
    [name : {name},
     commands : SUBSET WorkspaceCommandNames,
     presets : DistinctSeqsUpTo(WorkspacePresetRefs, MaxWorkspacePresets),
     mcpServers : {<<>>} \cup
                  {<<[name |-> WorkspaceServerName, def |-> v]>> : v \in ServerValues},
     mcpJson : {"absent", "malformed"}]

WorkspaceStart ==
    /\ gPackages \in
          {p \in [1..Len(WorkspacePaths) ->
                    UNION {WorkspaceConfigs(WorkspacePaths[i]) :
                             i \in 1..Len(WorkspacePaths)}] :
             \A i \in 1..Len(WorkspacePaths) : p[i].name = WorkspacePaths[i]}
    /\ gResults = <<>>
    /\ gCommands = <<>>
    /\ gMcp = [merged |-> <<>>, conflicts |-> <<>>]
    /\ gRoot = [commands |-> {}, mcp |-> NoMcpJson, written |-> {}]
    /\ gLast = "none"

\* install-workspaces.ts installWorkspaces.
WorkspaceInstall ==
    /\ gLast # "idle"
    /\ gResults' = installWorkspacesPackages(gPackages, FALSE)
    /\ gCommands' = MergedWorkspaceCommands(gPackages)
    /\ gMcp' = mergeWorkspaceMcpServers(gPackages)
    /\ gRoot' = WorkspaceRootWritten(gPackages, gRoot)
    /\ gLast' = "workspaces"
    /\ UNCHANGED gPackages
    /\ UNCHANGED gOthers

\* install-workspaces.ts installWorkspaces with dryRun.
WorkspaceDryRun ==
    /\ gLast # "idle"
    /\ gResults' = installWorkspacesPackages(gPackages, TRUE)
    /\ gCommands' = MergedWorkspaceCommands(gPackages)
    /\ gMcp' = mergeWorkspaceMcpServers(gPackages)
    /\ gRoot' = [gRoot EXCEPT !.written = {}]
    /\ gLast' = "dry"
    /\ UNCHANGED gPackages
    /\ UNCHANGED gOthers

WorkspaceInit ==
    /\ WorkspaceStart
    /\ PresetIdle
    /\ McpIdle
    /\ RulesIdle
    /\ CommandsIdle
    /\ HooksIdle
    /\ RewriteIdle
    /\ AssetsIdle
    /\ OverridesIdle
    /\ TreeIdle
    /\ FilterIdle
    /\ ValidationIdle
    /\ LoadIdle
    /\ ReinstallIdle
    /\ NamespaceIdle

WorkspaceNext == WorkspaceInstall \/ WorkspaceDryRun

SpecWorkspace == WorkspaceInit /\ [][WorkspaceNext]_vars

\* The preset directory a command entry of the merged list was read from.
EntriesFromPreset(presetDir, name) ==
    {i \in 1..Len(gCommands) :
        /\ gCommands[i].source = "preset"
        /\ gCommands[i].name = name
        /\ gCommands[i].sourcePath = CommandSourcePath(presetDir, name)}

PresetDirs ==
    {resolvePresetPath(ref, PackageDir(WorkspacePaths[i])) :
        ref \in WorkspacePresetRefs, i \in 1..Len(WorkspacePaths)}

\* C21: for every preset and command name, the commands merged for the
\* workspace root hold at most one entry read from that preset under that
\* name, however many packages consume the preset.
C21_PresetCommandOnceAtRoot ==
    gLast \in {"workspaces", "dry"} =>
        \A presetDir \in PresetDirs : \A name \in WorkspaceCommandNames :
            Cardinality(EntriesFromPreset(presetDir, name)) <= 1

\* For every preset reference string and command name, the merged commands
\* hold at most one entry with that presetName and name.
PresetReferenceOnceAtRoot ==
    gLast \in {"workspaces", "dry"} =>
        \A ref \in WorkspacePresetRefs : \A name \in WorkspaceCommandNames :
            Cardinality({i \in 1..Len(gCommands) :
                            /\ gCommands[i].presetName = ref
                            /\ gCommands[i].name = name}) <= 1

\* Two packages consume one preset under one reference string.
SharedReferenceConsumed ==
    /\ gLast = "workspaces"
    /\ \E ref \in WorkspacePresetRefs :
          /\ \A i \in 1..Len(gPackages) : ref \in Range(gPackages[i].presets)
          /\ \E i \in 1..Len(gCommands) : gCommands[i].presetName = ref


\* The packages that define a server: the key is in their mcpServers with a
\* value other than false.
ServerDefiners(key) ==
    {i \in 1..Len(gPackages) :
        \E k \in 1..Len(gPackages[i].mcpServers) :
            /\ gPackages[i].mcpServers[k].name = key
            /\ gPackages[i].mcpServers[k].def # "false"}

ServerValueIn(i, key) ==
    LET servers == gPackages[i].mcpServers
    IN  servers[CHOOSE k \in 1..Len(servers) : servers[k].name = key].def

LastDefiner(key) ==
    CHOOSE i \in ServerDefiners(key) : \A j \in ServerDefiners(key) : j <= i

ConflictsOf(key) ==
    {k \in 1..Len(gMcp.conflicts) : gMcp.conflicts[k].name = key}

\* The root list holds the key with the definition of the last definer.
RootUsesLastDefiner(key) ==
    \E k \in 1..Len(gMcp.merged) :
        /\ gMcp.merged[k].name = key
        /\ gMcp.merged[k].def = ServerValueIn(LastDefiner(key), key)
        /\ \A j \in 1..Len(gMcp.merged) : gMcp.merged[j].name = key => j = k

\* A conflict warning of the key lists the definers.
ConflictListsDefiners(key) ==
    \A k \in ConflictsOf(key) :
        gMcp.conflicts[k].presets =
            {gPackages[i].name : i \in ServerDefiners(key)}

\* C22: when several packages define the same MCP server name, the root
\* server list uses the definition of the last such package in sorted-path
\* order, and a conflict warning that lists the contributing packages is
\* emitted exactly when their definitions differ; the warning fails nothing.
C22_LastDefinerWinsWarnIffDiffer ==
    gLast \in {"workspaces", "dry"} =>
        \A key \in {WorkspaceServerName} :
            Cardinality(ServerDefiners(key)) >= 2 =>
                /\ RootUsesLastDefiner(key)
                /\ ConflictListsDefiners(key)
                /\ (ConflictsOf(key) # {}) <=>
                      (\E i, j \in ServerDefiners(key) :
                          ServerObject(ServerValueIn(i, key)) #
                          ServerObject(ServerValueIn(j, key)))

\* The same with the definitions compared as the text JSON.stringify gives.
LastDefinerWinsWarnIffTextsDiffer ==
    gLast \in {"workspaces", "dry"} =>
        \A key \in {WorkspaceServerName} :
            Cardinality(ServerDefiners(key)) >= 2 =>
                /\ RootUsesLastDefiner(key)
                /\ ConflictListsDefiners(key)
                /\ Cardinality(ConflictsOf(key)) <= 1
                /\ (ConflictsOf(key) # {}) <=>
                      (\E i, j \in ServerDefiners(key) :
                          ServerValueIn(i, key) # ServerValueIn(j, key))

\* Two packages define one server with objects of other keys.
DifferingDefinitionsMerged ==
    /\ gLast = "workspaces"
    /\ Cardinality(ServerDefiners(WorkspaceServerName)) >= 2
    /\ ConflictsOf(WorkspaceServerName) # {}
    /\ \E i, j \in ServerDefiners(WorkspaceServerName) :
          ServerObject(ServerValueIn(i, WorkspaceServerName)) #
          ServerObject(ServerValueIn(j, WorkspaceServerName))


\* The packages whose installPackage failed in the last run.
FailedPackages == {i \in 1..Len(gResults) : ~gResults[i].success}

\* C25: in workspace mode, once the installation of one package fails, no
\* later package is installed and no aggregate is written at the root.
C25_FailFastInWorkspace ==
    gLast = "workspaces" =>
        \A i \in FailedPackages :
            /\ \A j \in (i + 1)..Len(gResults) : gResults[j].wrote = {}
            /\ gRoot.written = {}

\* A run in which a package failed has a result for every package, and the
\* failed package is among them.
FailedRunReportsEveryPackage ==
    gLast = "workspaces" =>
        /\ Len(gResults) = Len(gPackages)
        /\ \A i \in 1..Len(gPackages) :
              ~gResults[i].success <=>
                  (Len(gPackages[i].mcpServers) > 0
                   /\ gPackages[i].mcpJson = "malformed")


\* The entries the last install added to the hooks.json of a location: the
\* entries of the merged config, written after the user's.
AddedHookEntries(loc, t) ==
    LET all == hJson[loc].hooks[t]
        n == Len(hMerged[loc][t])
    IN  IF hLast \in {"install", "workspaces"} /\ hJson[loc].exists /\ n <= Len(all)
        THEN SubSeq(all, Len(all) - n + 1, Len(all))
        ELSE <<>>

\* The command names a file of .cursor/hooks/aicm of the location.
NamesWrittenHookFile(loc, command) ==
    /\ StartsWith(command, ManagedPrefix)
    /\ \E f \in hFiles[loc] :
          JoinWith(f.path, "/") =
              SubSeq(command, Len(ManagedPrefix) + 1, Len(command))

\* C28: every command entry that install adds to the target's hooks.json
\* has the form ./hooks/aicm/<name>, where <name> is the name of a hook file
\* that the same install wrote under the managed hooks directory.
C28_AddedEntriesNameWrittenFiles ==
    \A loc \in Locations : \A t \in HookTypes :
        \A i \in 1..Len(AddedHookEntries(loc, t)) :
            NamesWrittenHookFile(loc, AddedHookEntries(loc, t)[i])

\* The same for the entries that stem from a ./ or ../ command of a source:
\* all but those made of a command that is no relative path.
RelativeEntriesNameWrittenFiles ==
    \A loc \in Locations : \A t \in HookTypes :
        \A i \in 1..Len(AddedHookEntries(loc, t)) :
            AddedHookEntries(loc, t)[i] # ManagedPrefix \o PlainCommand =>
                NamesWrittenHookFile(loc, AddedHookEntries(loc, t)[i])

\* An install added an entry that names a written file of a preset.
PresetEntryAdded ==
    \E loc \in Locations : \E t \in HookTypes :
        \E i \in 1..Len(AddedHookEntries(loc, t)) :
            /\ NamesWrittenHookFile(loc, AddedHookEntries(loc, t)[i])
            /\ Len(AddedHookEntries(loc, t)[i]) > Len(ManagedPrefix) + 2


(***************************************************************************)
(* Hook command validation: the commands of a source's hooks.json checked  *)
(* against its hooks/ directory (hooks.ts validateHookPath,                *)
(* loadHooksFromDirectory) and the hooks.json the install writes.          *)
(***************************************************************************)

\* Commands of a hooks.json besides "./hooks/a" and "e": "../x" and
\* "./hooks/../x", which leave the hooks/ directory, and "./hooks/b", a
\* file that is not there.
EscapingCommand == <<".", ".", "/", "x">>
ClimbingCommand == <<".", "/", "h", "o", "o", "k", "s", "/", ".", ".", "/", "x">>
MissingScript == <<".", "/", "h", "o", "o", "k", "s", "/", "b">>

CheckedCommands ==
    {OwnScript, PlainCommand, EscapingCommand, ClimbingCommand, MissingScript}

\* The most commands a hook type of the checked hooks.json binds.
MaxCheckedCommands == 2

HooksDirName == <<"h", "o", "o", "k", "s">>

\* path.relative(hooksDir, resolvedPath), both given relative to rootDir.
RelativeToHooksDir(resolved) ==
    IF Len(resolved) >= 1 /\ resolved[1] = HooksDirName
    THEN JoinWith(Tail(resolved), "/")
    ELSE JoinWith(<<DotDot>> \o resolved, "/")

\* hooks.ts validateHookPath.
validateHookPath(commandPath) ==
    IF ~IsRelativeCommand(commandPath)
    THEN [valid |-> FALSE, relativePath |-> <<>>]
    ELSE LET relativePath == RelativeToHooksDir(HookResolvedPath(commandPath))
         IN  IF StartsWith(relativePath, DotDot)
             THEN [valid |-> FALSE, relativePath |-> <<>>]
             ELSE [valid |-> TRUE, relativePath |-> relativePath]

\* hooks.ts loadHooksFromDirectory, its warnings: one for every command
\* that does not validate, looked for only when hooks/ exists.
CommandWarnings(hookCommands) ==
    SelectSeq(hookCommands,
              LAMBDA c : c # <<>> /\ (~validateHookPath(c).valid
                                      \/ validateHookPath(c).relativePath = <<>>))

ValidationWarnings(src) ==
    IF src.hooksDir
    THEN Flatten([i \in 1..Cardinality(HookTypes) |->
                     CommandWarnings(src.hooks[SetToSeq(HookTypes)[i]])])
    ELSE <<>>

\* hooks.ts loadHooksFromDirectory for a local source with a hooks.json:
\* the files of hooks/, if there is one, and the rewritten config.
LoadedHooks(src) ==
    IF src.hooksDir
    THEN loadHooksFromDirectory([exists |-> TRUE, hooks |-> src.hooks],
                                "local", NoPreset, PackageNames[1])
    ELSE [config |-> rewriteHooksConfigForNamespace(src.hooks, <<>>),
          files |-> <<>>]

ValidationStart ==
    /\ vSource \in
          [hooks : [HookTypes -> SeqsUpTo(CheckedCommands, MaxCheckedCommands)],
           hooksDir : BOOLEAN]
    /\ vJson = NoJson
    /\ vWarnings = <<>>
    /\ vResult = "none"
    /\ vLast = "none"

\* install.ts install -> installPackage: the config is loaded, then
\* writeHooksToCursor runs when there is a hook or a hook file.
ValidationInstall ==
    /\ vLast # "idle"
    /\ LET loaded == LoadedHooks(vSource)
       IN  /\ vWarnings' = ValidationWarnings(vSource)
           /\ vJson' = IF countHooks(loaded.config) > 0 \/ Len(loaded.files) > 0
                       THEN writeHooksToCursorJson(loaded.config, vJson)
                       ELSE vJson
    /\ vResult' = "ok"
    /\ vLast' = "install"
    /\ UNCHANGED vSource
    /\ UNCHANGED vOthers

ValidationInit ==
    /\ ValidationStart
    /\ PresetIdle
    /\ McpIdle
    /\ RulesIdle
    /\ CommandsIdle
    /\ HooksIdle
    /\ RewriteIdle
    /\ AssetsIdle
    /\ OverridesIdle
    /\ TreeIdle
    /\ FilterIdle
    /\ WorkspaceIdle
    /\ LoadIdle
    /\ ReinstallIdle
    /\ NamespaceIdle

ValidationNext == ValidationInstall

SpecValidation == ValidationInit /\ [][ValidationNext]_vars

\* A command is a ./ or ../ reference that resolves to a location inside
\* the hooks directory.
InsideHooksDir(command) ==
    /\ IsRelativeCommand(command)
    /\ LET resolved == PathJoin(Split(command, "/"))
       IN  Len(resolved) >= 2 /\ resolved[1] = HooksDirName

\* The commands of the source that are inside the hooks directory.
InsideCommands(t) == SelectSeq(vSource.hooks[t], InsideHooksDir)

LeftOut(t, command) ==
    /\ Len(vJson.hooks[t]) <= Len(InsideCommands(t))
    /\ \A i \in 1..Len(vJson.hooks[t]) :
          /\ vJson.hooks[t][i] # command
          /\ vJson.hooks[t][i] # ManagedPrefix \o command

\* C24: a hook command that is not a ./ or ../ reference resolving to a
\* location inside the hooks directory is left out of the installed hook
\* configuration, a warning is printed for it, and the install succeeds.
C24_InvalidCommandDroppedWithWarning ==
    vLast = "install" =>
        \A t \in HookTypes : \A i \in 1..Len(vSource.hooks[t]) :
            ~InsideHooksDir(vSource.hooks[t][i]) =>
                /\ LeftOut(t, vSource.hooks[t][i])
                /\ \E k \in 1..Len(vWarnings) : vWarnings[k] = vSource.hooks[t][i]
                /\ vResult = "ok"

\* For a source with a hooks/ directory and no command that is no relative
\* path: a reference that leaves the hooks directory is left out and
\* warned of, and the install succeeds.
EscapingReferenceDroppedWithWarning ==
    (/\ vLast = "install"
     /\ vSource.hooksDir
     /\ \A t \in HookTypes : \A i \in 1..Len(vSource.hooks[t]) :
           IsRelativeCommand(vSource.hooks[t][i])) =>
        \A t \in HookTypes : \A i \in 1..Len(vSource.hooks[t]) :
            ~InsideHooksDir(vSource.hooks[t][i]) =>
                /\ LeftOut(t, vSource.hooks[t][i])
                /\ \E k \in 1..Len(vWarnings) : vWarnings[k] = vSource.hooks[t][i]
                /\ vResult = "ok"

\* An install of a source with a script and a reference that escapes.
EscapingReferenceInstalled ==
    /\ vLast = "install"
    /\ vSource.hooksDir
    /\ \E t \in HookTypes :
          /\ vSource.hooks[t] = <<OwnScript, EscapingCommand>>
          /\ vJson.hooks[t] = <<ManagedPrefix \o <<"a">> >>


(***************************************************************************)
(* Loading one preset: the check of config.ts loadPreset that the preset's *)
(* root directory has something to install.                                *)
(***************************************************************************)

\* What the root directory of a preset may hold: the subtrees and the file
\* the tool knows, and a file it does not look at.
RecognizedEntries ==
    {"rules", "commands", "assets", "skills", "agents", "hooks.json"}

PresetDirEntries == RecognizedEntries \cup {"README.md"}

\* The references a preset's config may declare as nested presets.
NestedPresetRefs == {"./q", "@s/q"}

\* The most nested presets a preset's config declares.
MaxNestedDeclared == 1

\* config.ts loadPreset for a preset that is found and parses: it throws
\* unless the root directory has rules/, commands/, hooks.json or assets/.
loadPreset(preset) ==
    LET hasRules == "rules" \in preset.entries
        hasCommands == "commands" \in preset.entries
        hasHooks == "hooks.json" \in preset.entries
        hasAssets == "assets" \in preset.entries
    IN  IF ~hasRules /\ ~hasCommands /\ ~hasHooks /\ ~hasAssets
        THEN "EmptyPreset"
        ELSE "ok"

LoadStart ==
    /\ lPreset \in [entries : SUBSET PresetDirEntries,
                    presets : DistinctSeqsUpTo(NestedPresetRefs, MaxNestedDeclared)]
    /\ lResult = "none"
    /\ lLast = "none"

\* config.ts loadAllRules -> loadPreset for a preset of the config.
LoadPreset ==
    /\ lLast # "idle"
    /\ lResult' = loadPreset(lPreset)
    /\ lLast' = "load"
    /\ UNCHANGED lPreset
    /\ UNCHANGED lOthers

LoadInit ==
    /\ LoadStart
    /\ PresetIdle
    /\ McpIdle
    /\ RulesIdle
    /\ CommandsIdle
    /\ HooksIdle
    /\ RewriteIdle
    /\ AssetsIdle
    /\ OverridesIdle
    /\ TreeIdle
    /\ FilterIdle
    /\ WorkspaceIdle
    /\ ValidationIdle
    /\ ReinstallIdle
    /\ NamespaceIdle

LoadNext == LoadPreset

SpecLoad == LoadInit /\ [][LoadNext]_vars

\* C23: loading a preset fails as empty exactly when its root directory
\* holds none of rules/, commands/, assets/, skills/, agents/, hooks.json
\* and its config declares no nested presets; a preset without content of
\* its own that declares nested presets loads.
C23_EmptyIffNoContentNoNested ==
    lLast = "load" =>
        (lResult = "EmptyPreset" <=>
            (lPreset.entries \cap RecognizedEntries = {} /\ lPreset.presets = <<>>))

\* Loading fails as empty exactly when the root directory holds none of
\* rules/, commands/, hooks.json, assets/.
EmptyIffNoneOfFour ==
    lLast = "load" =>
        (lResult = "EmptyPreset" <=>
            lPreset.entries \cap {"rules", "commands", "hooks.json", "assets"} = {})

\* A preset with rules/ alone was loaded.
RulesPresetLoaded ==
    lLast = "load" /\ lPreset.entries = {"rules"} /\ lResult = "ok"


(***************************************************************************)
(* Install after install: a package is installed, its configuration is     *)
(* edited, and it is installed again into the same destination             *)
(* (install.ts installPackage).                                            *)
(***************************************************************************)

\* The most installs run in a row.
MaxReinstalls == 2

ReinstallStart ==
    /\ nConfigs \in [1..2 -> TreeConfigs(PackageNames[1])]
    /\ nTree = EmptyTree
    /\ nHistory = <<>>

\* install.ts install -> installPackage with the configuration as it was
\* first.
ReinstallFirst ==
    /\ nHistory # <<"idle">>
    /\ Len(nHistory) < MaxReinstalls
    /\ nTree' = installPackageTree(nConfigs[1], nTree, FALSE)
    /\ nHistory' = Append(nHistory, "C1")
    /\ UNCHANGED nConfigs
    /\ UNCHANGED nOthers

\* install.ts install -> installPackage with the edited configuration.
ReinstallSecond ==
    /\ nHistory # <<"idle">>
    /\ Len(nHistory) < MaxReinstalls
    /\ nTree' = installPackageTree(nConfigs[2], nTree, FALSE)
    /\ nHistory' = Append(nHistory, "C2")
    /\ UNCHANGED nConfigs
    /\ UNCHANGED nOthers

ReinstallInit ==
    /\ ReinstallStart
    /\ PresetIdle
    /\ McpIdle
    /\ RulesIdle
    /\ CommandsIdle
    /\ HooksIdle
    /\ RewriteIdle
    /\ AssetsIdle
    /\ OverridesIdle
    /\ TreeIdle
    /\ FilterIdle
    /\ WorkspaceIdle
    /\ ValidationIdle
    /\ LoadIdle
    /\ NamespaceIdle

ReinstallNext == ReinstallFirst \/ ReinstallSecond

SpecReinstall == ReinstallInit /\ [][ReinstallNext]_vars

\* The managed part of a tree: the managed files, the marked servers and
\* the entries of hooks.json that point into the managed directory.
ManagedPart(tree) ==
    [rules |-> tree.rules, commands |-> tree.commands,
     hookFiles |-> tree.hookFiles,
     servers |-> {[name |-> tree.mcp.servers[i].name,
                   def |-> tree.mcp.servers[i].def] :
                     i \in {k \in 1..Len(tree.mcp.servers) :
                              tree.mcp.servers[k].aicm}},
     hooks |-> [t \in HookTypes |->
                   SelectSeq(tree.hooksJson.hooks[t],
                             LAMBDA c : StartsWith(c, ManagedPrefix))]]

\* C26: installing configuration C1 and then C2 leaves the same managed
\* files, managed hook entries and marked servers as installing C2 into a
\* clean destination.
C26_ManagedPartOfLastConfigOnly ==
    nHistory = <<"C1", "C2">> =>
        ManagedPart(nTree) =
            ManagedPart(installPackageTree(nConfigs[2], EmptyTree, FALSE))

\* The same when the second configuration has a rule, a server and a hook,
\* so that every category is written again.
ManagedPartOfLastConfigWhenAllWritten ==
    (/\ nHistory = <<"C1", "C2">>
     /\ nConfigs[2].rules # {}
     /\ Len(nConfigs[2].mcpServers) > 0
     /\ PackageWritesHooks(nConfigs[2])) =>
        ManagedPart(nTree) =
            ManagedPart(installPackageTree(nConfigs[2], EmptyTree, FALSE))

\* The managed commands are those of the last configuration in any case.
ManagedCommandsOfLastConfig ==
    nHistory = <<"C1", "C2">> =>
        nTree.commands =
            installPackageTree(nConfigs[2], EmptyTree, FALSE).commands

\* The second configuration drops a preset of the first and was installed.
SmallerConfigInstalled ==
    /\ nHistory = <<"C1", "C2">>
    /\ Len(nConfigs[1].presets) = 2
    /\ Len(nConfigs[2].presets) = 1
    /\ nConfigs[2].rules # {}
    /\ Len(nConfigs[2].mcpServers) = 1
    /\ Len(nConfigs[1].mcpServers) = 2


\* The entries whose names are no keys of the overrides, in their order.
NotOverridden(files) ==
    SelectSeq(files, LAMBDA file : file.name \notin DOMAIN oConfig.overrides)

\* C27: applying overrides changes only the entries whose names are keys of
\* the overrides map: every other merged rule and command, two rules of one
\* name from different sources included, is passed through unchanged and is
\* still present.
C27_OverridesTouchOnlyTheirKeys ==
    (oLast = "install" /\ oResolved.status = "ok") =>
        /\ NotOverridden(oResolved.rules) =
              NotOverridden(loadAllRulesRules(oConfig.rules, oConfig.presets))
        /\ NotOverridden(oResolved.commands) =
              NotOverridden(loadAllRulesCommands(oConfig))

\* The same for the names that the merged lists hold once: every entry of
\* such a name that is no key of the overrides is passed through unchanged.
OverridesTouchOnlyTheirKeysWhereUnique ==
    (oLast = "install" /\ oResolved.status = "ok") =>
        LET Once(files, name) ==
                Cardinality({i \in 1..Len(files) : files[i].name = name}) = 1
            rules == loadAllRulesRules(oConfig.rules, oConfig.presets)
            commands == loadAllRulesCommands(oConfig)
        IN  /\ \A i \in 1..Len(rules) :
                  (Once(rules, rules[i].name)
                   /\ rules[i].name \notin DOMAIN oConfig.overrides) =>
                      \E k \in 1..Len(oResolved.rules) : oResolved.rules[k] = rules[i]
            /\ \A i \in 1..Len(commands) :
                  (Once(commands, commands[i].name)
                   /\ commands[i].name \notin DOMAIN oConfig.overrides) =>
                      \E k \in 1..Len(oResolved.commands) :
                          oResolved.commands[k] = commands[i]

\* An override of one rule was applied next to another rule that it leaves
\* as it was.
OverrideAppliedNextToOther ==
    /\ oLast = "install"
    /\ oResolved.status = "ok"
    /\ DOMAIN oConfig.overrides = {<<"b">>}
    /\ oConfig.overrides[<<"b">>].kind = "path"
    /\ oConfig.rules = {<<"a">>, <<"b">>}
    /\ \E k \in 1..Len(oResolved.rules) :
          oResolved.rules[k].name = <<"a">> /\ oResolved.rules[k].source = "local"


(***************************************************************************)
(* Preset namespaces: the namespace config.ts                              *)
(* extractNamespaceFromPresetPath derives from a preset reference, and     *)
(* the places where a preset's rule, asset and hook file are written.      *)
(***************************************************************************)

\* The segments a preset reference is made of: "", ".", "..", "p", "@s".
ReferenceSegments == {<<>>, Dot, DotDot, <<"p">>, <<"@", "s">>}

\* The most segments of a reference.
MaxReferenceSegments == 3

\* The references: the segments joined by "/", the empty string left out.
PresetReferences ==
    {JoinWith(l, "/") :
        l \in UNION {[1..k -> ReferenceSegments] : k \in 1..MaxReferenceSegments}}
    \ {<<>>}

\* What a preset of the model holds: rules/a.mdc, assets/x and hooks/a.
NamespaceRule(ref) ==
    [name |-> <<"a">>, source |-> "preset", presetName |-> ref,
     content |-> <<"preset", ref, <<"a">>>>]

NamespaceHookFile(ref) ==
    [name |-> HookFileName(<<"a">>, "preset", ref), source |-> "preset",
     presetName |-> ref, content |-> <<"preset", ref, <<"a">>>>]

NamespaceStart ==
    /\ ePreset \in PresetReferences
    /\ eWritten = [namespace |-> <<>>, rule |-> <<>>, asset |-> <<>>, hook |-> <<>>]
    /\ eLast = "none"

\* install.ts installPackage for a config with the one preset: the rule is
\* written by writeCursorRules below .cursor/rules/aicm, the asset by
\* writeAssetsToTargets below the project directory, the hook file by
\* writeHooksToCursor below .cursor/hooks/aicm.
NamespaceInstall ==
    /\ eLast # "idle"
    /\ eWritten' =
          [namespace |-> extractNamespaceFromPresetPath(ePreset),
           rule |-> RuleInstallPath(NamespaceRule(ePreset)),
           asset |-> AssetInstallPath(ePreset, <<"x">>),
           hook |-> HookInstallPath(NamespaceHookFile(ePreset))]
    /\ eLast' = "install"
    /\ UNCHANGED ePreset
    /\ UNCHANGED eOthers

NamespaceInit ==
    /\ NamespaceStart
    /\ PresetIdle
    /\ McpIdle
    /\ RulesIdle
    /\ CommandsIdle
    /\ HooksIdle
    /\ RewriteIdle
    /\ AssetsIdle
    /\ OverridesIdle
    /\ TreeIdle
    /\ FilterIdle
    /\ WorkspaceIdle
    /\ ValidationIdle
    /\ LoadIdle
    /\ ReinstallIdle

NamespaceNext == NamespaceInstall

SpecNamespace == NamespaceInit /\ [][NamespaceNext]_vars

\* A path relative to a managed directory stays inside it.
InsideManaged(path) == path # <<>> /\ path[1] # DotDot

\* The asset's path, relative to the project, is below .cursor/assets/aicm.
AssetInsideManaged(path) ==
    /\ Len(path) > Len(CursorDir \o AssetsAicm)
    /\ SubSeq(path, 1, Len(CursorDir \o AssetsAicm)) = CursorDir \o AssetsAicm

CleanNamespace(namespace) ==
    \A i \in 1..Len(namespace) :
        namespace[i] # <<>> /\ namespace[i] # Dot /\ namespace[i] # DotDot

\* C29: for every preset reference, scoped references that begin with @
\* included, the derived namespace has no empty, "." or ".." segment, and
\* the preset's rule, asset and hook file are written inside their managed
\* directories.
C29_NamespaceStaysInside ==
    eLast = "install" =>
        /\ CleanNamespace(eWritten.namespace)
        /\ InsideManaged(eWritten.rule)
        /\ AssetInsideManaged(eWritten.asset)
        /\ InsideManaged(eWritten.hook)

\* The same for the references that do not begin with @.
PathNamespaceStaysInside ==
    (eLast = "install" /\ ~StartsWithChar(ePreset, "@")) =>
        /\ CleanNamespace(eWritten.namespace)
        /\ InsideManaged(eWritten.rule)
        /\ AssetInsideManaged(eWritten.asset)
        /\ InsideManaged(eWritten.hook)

\* A preset referred to as "../p" was installed under the namespace p.
ParentReferenceInstalled ==
    /\ eLast = "install"
    /\ ePreset = <<".", ".", "/", "p">>
    /\ eWritten.namespace = << <<"p">> >>
    /\ eWritten.rule = << <<"p">>, <<"a">> >>


\* A scoped reference "@s/../.." was installed and its rule was written
\* outside .cursor/rules/aicm.
ScopedReferenceEscapes ==
    /\ eLast = "install"
    /\ ePreset = <<"@", "s", "/", ".", ".", "/", ".", ".">>
    /\ DotDot \in Range(eWritten.namespace)
    /\ ~InsideManaged(eWritten.rule)


\* A resolved command of a package is installed: its file under
\* .cursor/commands/aicm of the package holds its content.
CommandInstalledAt(loc, command) ==
    [path |-> CommandInstallPath(command),
     content |-> CommandWritten(command)] \in cFiles[loc]

\* The warnings emitted at a location about a command name.
CommandWarningsAbout(loc, name) ==
    {w \in cWarnings : w.at = loc /\ w.kind = "command" /\ w.name = name}

\* C30: a resolved command of an installed package is left out of the
\* package's install set, another command having its name, only when a
\* warning about that name is emitted there; in particular a local command
\* is never replaced by a preset command of its name without a warning.
C30_LeftOutOnlyWithWarning ==
    \A k \in InstalledPackages :
        LET pkg == cPackages[k]
            commands == loadAllRulesCommands(pkg)
        IN  \A i \in 1..Len(commands) :
                ~CommandInstalledAt(pkg.name, commands[i]) =>
                    CommandWarningsAbout(pkg.name, commands[i].name) # {}

\* The same for the commands that come from presets: one left out has a
\* warning that names its preset and the preset installed.
PresetCommandLeftOutOnlyWithWarning ==
    \A k \in InstalledPackages :
        LET pkg == cPackages[k]
            commands == loadAllRulesCommands(pkg)
        IN  \A i \in 1..Len(commands) :
                (commands[i].presetName # NoPreset
                 /\ ~CommandInstalledAt(pkg.name, commands[i])) =>
                    \E w \in CommandWarningsAbout(pkg.name, commands[i].name) :
                        /\ commands[i].presetName \in w.presets
                        /\ \E f \in cFiles[pkg.name] :
                              /\ f.path = CommandInstallPath(commands[i])
                              /\ f.content.presetName = w.chosen

\* A preset command was left out for the last declared preset's, with the
\* warning.
PresetCommandLeftOut ==
    /\ cLast = "install"
    /\ \E i \in 1..Len(loadAllRulesCommands(cPackages[1])) :
          LET command == loadAllRulesCommands(cPackages[1])[i]
          IN  /\ command.presetName # NoPreset
              /\ ~CommandInstalledAt(cPackages[1].name, command)
              /\ CommandWarningsAbout(cPackages[1].name, command.name) # {}

\* A local command was replaced by the command of the package's one preset
\* and no warning was emitted.
LocalCommandReplacedSilently ==
    /\ cLast = "install"
    /\ Len(cPackages[1].presets) = 1
    /\ cWarnings = {}
    /\ \E name \in cPackages[1].commands :
          /\ name \in cPackages[1].presets[1].commands
          /\ \A f \in cFiles[cPackages[1].name] :
                f.path = CommandFilePath(name) =>
                    f.content.content =
                        PresetContent(cPackages[1].presets[1].ref, name)
          /\ \E f \in cFiles[cPackages[1].name] : f.path = CommandFilePath(name)

=============================================================================
